---- MODULE Spec2Model ----
(***************************************************************************)
(* The consumer side of the pipeline: KafkaConsumerService buffers the     *)
(* rows of the units it is handed and passes them, row by row, to the      *)
(* handler ConsumerController.setupBatchProcessing installs, which buffers *)
(* them again and writes them to MySQL with DatabaseService.insertBatch.   *)
(*                                                                         *)
(* Node.js runs one callback at a time: a step of this model is the code   *)
(* one asynchronous flow runs between two awaits of real I/O (a MySQL      *)
(* command, the Kafka disconnect).  An await of a promise that is already  *)
(* settled only yields to the microtask queue, which holds nothing of      *)
(* another flow, so it is not an interleaving point.  The flows are        *)
(*   "msg"    kafkajs's eachMessage -> KafkaConsumerService.handleMessage  *)
(*   "ktimer" the setInterval callback of startConsuming                   *)
(*   "ctimer" the setInterval callback of setupBatchProcessing             *)
(*   "drain"  ConsumerController.destroy, run by a signal handler          *)
(*   "drain2" the same, run by the handler of the other signal             *)
(* Each timer has at most one callback in flight in this model, and each   *)
(* signal handler runs at most once.  The initial state is the one where   *)
(* ConsumerController.initialize and start have returned.  batchCount is   *)
(* only logged and is left out.                                            *)
(* mysql2 runs the commands of one connection in the order they were       *)
(* issued: dbq is that queue.                                              *)
(***************************************************************************)
EXTENDS Integers, Sequences, FiniteSets, TLC

\* Number of units in the topic partition.
NumMsgs == 4

\* Number of commands MySQL may fail for reasons of its own.
MaxFails == 1

\* Number of times kafkajs hands over a unit again after eachMessage threw.
MaxRedeliver == 1

\* config.batchSize (BATCH_SIZE, 100 by default), scaled down.
batchSize == 3

\* The literal 100 of setupBatchProcessing's handler, scaled down.
CtrlBatch == 3

\* A TableSchema, by the names of its columns.
SchemaA == {"a", "b"}

SchemaB == {"a", "c"}

Schemas == {SchemaA, SchemaB}

NoSchema == {}

KFlows == {"msg", "ktimer", "drain", "drain2"}

\* The flows of the two signal handlers.
Drains == {"drain", "drain2"}

Flows == KFlows \cup {"ctimer"}

VARIABLES
  topic,             \* the units of the partition: offset -> embedded schema
  next,              \* offset of the next unit kafkajs hands to eachMessage
  committed,         \* number of offsets committed to the broker
  messageBuffer,     \* KafkaConsumerService.messageBuffer (the current array)
  currentSchema,     \* KafkaConsumerService.currentSchema
  isConnected,       \* BaseKafka.isConnected of the consumer
  ctrlBuffer,        \* the messageBuffer closed over in setupBatchProcessing
  tableInitialized,  \* ConsumerController.tableInitialized
  isInitialized,     \* BaseService.isInitialized of the DatabaseService
  fl,                \* the position of each asynchronous flow
  dbq,               \* commands issued on the MySQL connection, not yet run
  connEnding,        \* connection.end() has been issued
  table,             \* the MySQL table
  phase,             \* the process: running, draining, stopped, crashed
  accepted,          \* history: rows pushed by handleMessage, in order
  sunk,              \* history: the argument of every insertBatch call
  createCalls,       \* history: number of createTable calls
  fails,             \* history: number of commands MySQL has failed
  last,              \* history: what the latest step was
  input,             \* the latest call: of a pure function, or on an instance
  output,            \* what the call of a pure function returned
  instances          \* several consumers in one process: the state of each

vars == <<topic, next, committed, messageBuffer, currentSchema, isConnected,
          ctrlBuffer, tableInitialized, isInitialized, fl, dbq, connEnding,
          table, phase, accepted, sunk, createCalls, fails, last, input,
          output, instances>>

\* The variables of the consumer.
cvars == <<topic, next, committed, messageBuffer, currentSchema, isConnected,
           ctrlBuffer, tableInitialized, isInitialized, fl, dbq, connEnding,
           table, phase, accepted, sunk, createCalls, fails, last>>

----------------------------------------------------------------------------
\* Helpers

Range(q) == {q[k] : k \in DOMAIN q}

InSeq(x, q) == \E k \in DOMAIN q : q[k] = x

Count(x, q) == Cardinality({k \in DOMAIN q : q[k] = x})

RECURSIVE Flatten(_)
Flatten(qq) == IF qq = <<>> THEN <<>> ELSE Head(qq) \o Flatten(Tail(qq))

\* No call of a pure function is being looked at.
NoCall == [fn |-> "none"]

\* The latest step: a unit, a timer, a signal, or MySQL's answer to the
\* command op of flow.
Step(kind) == [kind |-> kind, flow |-> "", op |-> "", ok |-> TRUE]

Answer(c, ok) == [kind |-> "db", flow |-> c.flow, op |-> c.op, ok |-> ok]

IdleFlow == [pc |-> "idle", i |-> 0, det |-> FALSE, arr |-> <<>>]

\* The unit at offset n, as handleMessage parses it: its row and its schema.
RowOf(n) == [id |-> n, cols |-> topic[n]]

\* The part of the state a flow's code reads and writes.
Cur ==
  [messageBuffer |-> messageBuffer, ctrlBuffer |-> ctrlBuffer,
   tableInitialized |-> tableInitialized, isInitialized |-> isInitialized,
   fl |-> fl, dbq |-> dbq, connEnding |-> connEnding, next |-> next,
   phase |-> phase, sunk |-> sunk, createCalls |-> createCalls,
   isConnected |-> isConnected, currentSchema |-> currentSchema]

Assign(s) ==
  /\ messageBuffer' = s.messageBuffer
  /\ ctrlBuffer' = s.ctrlBuffer
  /\ tableInitialized' = s.tableInitialized
  /\ isInitialized' = s.isInitialized
  /\ fl' = s.fl
  /\ dbq' = s.dbq
  /\ connEnding' = s.connEnding
  /\ next' = s.next
  /\ phase' = s.phase
  /\ sunk' = s.sunk
  /\ createCalls' = s.createCalls
  /\ isConnected' = s.isConnected
  /\ currentSchema' = s.currentSchema

----------------------------------------------------------------------------
\* What the code of a flow does between two awaits of I/O, as a function of
\* the state record s.

\* An exception leaves flow f.  handleMessage logs and rethrows, eachMessage
\* rejects, and kafkajs, which resolves an offset only when eachMessage
\* returned, hands the same unit over again.  A rejected setInterval callback
\* or signal handler is an unhandled rejection, which ends the process
\* (Node.js 15 and later; the README asks for 20).
Throw(f, s) ==
  IF f = "msg"
    THEN [s EXCEPT !.fl["msg"] = IdleFlow]
    ELSE [s EXCEPT !.fl[f] = IdleFlow, !.phase = "crashed"]

\* BaseService.ensureInitialized and the connection test of createTable and
\* insertBatch; mysql2 refuses a command once end() was issued.
CanExecute(s) == s.isInitialized /\ ~s.connEnding

\* DatabaseService.insertBatch([...messageBuffer]) up to its await.  The
\* buffer is never empty where the controller calls it.
InsertBatch(f, s) ==
  IF ~CanExecute(s)
    THEN Throw(f, s)
    ELSE [s EXCEPT !.dbq = Append(@, [flow |-> f, op |-> "insert",
                                      rows |-> s.ctrlBuffer,
                                      schema |-> NoSchema]),
                   !.sunk = Append(@, s.ctrlBuffer),
                   !.fl[f].pc = "insert"]

\* DatabaseService.createTable(schema) up to its first await (DROP TABLE).
CreateTable(f, s) ==
  IF ~CanExecute(s)
    THEN Throw(f, [s EXCEPT !.createCalls = @ + 1])
    ELSE [s EXCEPT !.dbq = Append(@, [flow |-> f, op |-> "drop",
                                      rows |-> <<>>,
                                      schema |-> s.currentSchema]),
                   !.createCalls = @ + 1,
                   !.fl[f].pc = "drop"]

\* The array flow f's for..of iterates: this.messageBuffer as it was when the
\* loop started.  Another flush that assigns this.messageBuffer = [] leaves
\* f on the old array (det), which nothing pushes to any more.
ArrOf(f, s) == IF s.fl[f].det THEN s.fl[f].arr ELSE s.messageBuffer

\* What follows flushBuffer in each of its three callers.
AfterFlush(f, s) ==
  CASE f = "msg" ->
         \* handleMessage returns; kafkajs resolves the offset
         [s EXCEPT !.fl["msg"] = IdleFlow, !.next = @ + 1]
    [] f = "ktimer" ->
         [s EXCEPT !.fl["ktimer"] = IdleFlow]
    [] OTHER ->
         \* onDisconnect: await this.consumer.disconnect()
         [s EXCEPT !.fl[f] = [IdleFlow EXCEPT !.pc = "kdisc"]]

InFlush(f, s) == f \in KFlows /\ s.fl[f].pc \in {"drop", "create", "insert"}

\* The end of flushBuffer's loop: this.messageBuffer = [].
FlushEnd(f, s) ==
  AfterFlush(f,
    [s EXCEPT !.messageBuffer = <<>>,
              !.fl = [g \in Flows |->
                        IF g # f /\ InFlush(g, s) /\ ~s.fl[g].det
                          THEN [s.fl[g] EXCEPT !.det = TRUE,
                                               !.arr = s.messageBuffer]
                          ELSE s.fl[g]]])

RECURSIVE Iterate(_, _, _)

\* The handler of setupBatchProcessing from messageBuffer.push(row) on.
HandlerPush(f, i, s) ==
  LET s1 == [s EXCEPT !.ctrlBuffer = Append(@, ArrOf(f, s)[i]),
                      !.fl[f].i = i]
  IN  IF Len(s1.ctrlBuffer) >= CtrlBatch
        THEN InsertBatch(f, s1)
        ELSE Iterate(f, i + 1, s1)

\* The handler of setupBatchProcessing, called with (currentSchema, row i).
Handler(f, i, s) ==
  IF ~s.tableInitialized /\ s.currentSchema # NoSchema
    THEN CreateTable(f, [s EXCEPT !.fl[f].i = i])
    ELSE HandlerPush(f, i, s)

\* flushBuffer's for (const row of this.messageBuffer), from index i on: the
\* array iterator reads the array's length at every step.
Iterate(f, i, s) ==
  IF i > Len(ArrOf(f, s)) THEN FlushEnd(f, s) ELSE Handler(f, i, s)

\* KafkaConsumerService.flushBuffer.  The message handler is set from
\* ConsumerController.initialize on.
FlushBuffer(f, s) ==
  IF Len(s.messageBuffer) = 0 \/ s.currentSchema = NoSchema
    THEN AfterFlush(f, s)
    ELSE Iterate(f, 1, [s EXCEPT !.fl[f] = [IdleFlow EXCEPT !.pc = "run"]])

\* The flow that awaited a command continues after the command succeeded.
Resume(c, s) ==
  LET f == c.flow IN
  CASE c.op = "drop" ->
         \* createTable: await this.connection.execute(createTableSQL)
         IF s.connEnding
           THEN Throw(f, s)
           ELSE [s EXCEPT !.dbq = Append(@, [c EXCEPT !.op = "create"]),
                          !.fl[f].pc = "create"]
    [] c.op = "create" ->
         HandlerPush(f, s.fl[f].i, [s EXCEPT !.tableInitialized = TRUE])
    [] c.op = "insert" ->
         \* messageBuffer.length = 0
         IF f = "ctimer"
           THEN [s EXCEPT !.ctrlBuffer = <<>>, !.fl[f] = IdleFlow]
           ELSE Iterate(f, s.fl[f].i + 1, [s EXCEPT !.ctrlBuffer = <<>>])
    [] OTHER ->
         \* onDestroy: this.connection = null; destroy: isInitialized =
         \* false; the signal handler: process.exit(0)
         [s EXCEPT !.isInitialized = FALSE, !.fl[f] = IdleFlow,
                   !.phase = "stopped"]

\* A variant of FailCmd: the error of the command is caught and logged, the
\* way getRowCount does it, and the flow goes on as after a success.
FailCmdSwallowed(c, s) == Resume(c, s)

\* The flow that awaited a command gets the command's error: neither
\* createTable nor insertBatch catches what connection.execute throws.
FailCmd(c, s) == Throw(c.flow, s)

----------------------------------------------------------------------------
\* The MySQL table

NoTable == [exists |-> FALSE, cols |-> NoSchema, rows |-> <<>>]

\* insertBatch takes the column list from the keys of rows[0]; MySQL rejects
\* the statement when the table or one of the columns does not exist.
InsertOk(c) == table.exists /\ c.rows[1].cols \subseteq table.cols

CmdOk(c) == c.op = "insert" => InsertOk(c)

TableAfter(c) ==
  CASE c.op = "drop" -> NoTable
    [] c.op = "create" ->
         IF table.exists THEN table
         ELSE [exists |-> TRUE, cols |-> c.schema, rows |-> <<>>]
    [] c.op = "insert" -> [table EXCEPT !.rows = @ \o c.rows]
    [] OTHER -> table

----------------------------------------------------------------------------
\* Initial state: ConsumerController.initialize and start have returned.

InitCommon ==
  /\ next = 1
  /\ committed = 0
  /\ messageBuffer = <<>>
  /\ currentSchema = NoSchema
  /\ isConnected = TRUE
  /\ ctrlBuffer = <<>>
  /\ tableInitialized = FALSE
  /\ isInitialized = TRUE
  /\ fl = [f \in Flows |-> IdleFlow]
  /\ dbq = <<>>
  /\ connEnding = FALSE
  /\ table = NoTable
  /\ phase = "running"
  /\ accepted = <<>>
  /\ sunk = <<>>
  /\ createCalls = 0
  /\ fails = 0
  /\ last = Step("init")

\* One producer run: sendBatch embeds the same schema in every unit.
Init ==
  /\ InitCommon
  /\ topic = [n \in 1..NumMsgs |-> SchemaA]
  /\ input = NoCall
  /\ output = NoCall
  /\ instances = <<>>

\* Units of several runs over different tables in one topic.
InitDrift ==
  /\ InitCommon
  /\ topic \in [1..NumMsgs -> Schemas]
  /\ input = NoCall
  /\ output = NoCall
  /\ instances = <<>>

\* The consumer is not looked at: it stays as constructed.
ConsumerIdle == InitCommon /\ topic = <<>>

\* Units handed over again so far.
Redelivered == Len(accepted) - Cardinality(Range(accepted))

Alive == phase \in {"running", "draining"}

----------------------------------------------------------------------------
\* Actions

\* A variant of SizeTrigger that fires one row early.
SizeTriggerEarly(s) == Len(s.messageBuffer) + 1 >= batchSize

\* A variant of SizeTrigger that fires one row late.
SizeTriggerLate(s) == Len(s.messageBuffer) > batchSize

\* handleMessage's test after the push: the buffer has reached batchSize (the
\* message handler is set).
SizeTrigger(s) == Len(s.messageBuffer) >= batchSize

\* A variant of HandleMessage that caches the schema of every unit.
HandleMessageLatest(s, schema, row) ==
  LET s0 == [s EXCEPT !.currentSchema = schema,
                      !.messageBuffer = Append(@, row)]
  IN  IF Len(s0.messageBuffer) >= batchSize THEN FlushBuffer("msg", s0)
      ELSE AfterFlush("msg", s0)

\* KafkaConsumerService.handleMessage on a unit with this schema and row, up
\* to its first await of I/O.
HandleMessage(s, schema, row) ==
  LET s0 == [s EXCEPT !.currentSchema = IF @ = NoSchema THEN schema ELSE @,
                      !.messageBuffer = Append(@, row)]
  IN  IF SizeTrigger(s0) THEN FlushBuffer("msg", s0)
      ELSE AfterFlush("msg", s0)

\* ConsumerController.destroy: BaseKafka.disconnect and onDisconnect up to
\* the first await of I/O.
Destroy(s) ==
  LET s0 == [s EXCEPT !.phase = "draining"]
  IN  IF Len(s.messageBuffer) > 0 /\ s.currentSchema # NoSchema
        THEN FlushBuffer("drain", s0)
        ELSE AfterFlush("drain", s0)

\* consumer.disconnect() has returned: isConnected = false, and
\* DatabaseService.destroy up to connection.end().
Disconnected(s) ==
  [s EXCEPT !.isConnected = FALSE,
            !.fl["drain"].pc = "dbend",
            !.dbq = Append(@, [flow |-> "drain", op |-> "end", rows |-> <<>>,
                               schema |-> NoSchema]),
            !.connEnding = TRUE]

\* kafkajs hands the next unit to eachMessage: handleMessage up to its first
\* await of I/O.  Units are handed over one at a time, and none after
\* consumer.disconnect() was called.
Deliver ==
  /\ Alive
  /\ isConnected
  /\ \A f \in Drains : fl[f].pc \notin {"kdisc", "dbend"}
  /\ fl["msg"].pc = "idle"
  /\ next <= NumMsgs
  /\ InSeq(RowOf(next), accepted) => Redelivered < MaxRedeliver
  /\ Assign(HandleMessage(Cur, topic[next], RowOf(next)))
  /\ accepted' = Append(accepted, RowOf(next))
  /\ last' = Step("deliver")
  /\ UNCHANGED <<input, output, instances, topic, committed, table, fails>>

\* The periodic flush of startConsuming fires.
KTimer ==
  /\ Alive
  /\ fl["ktimer"].pc = "idle"
  /\ Len(messageBuffer) > 0
  /\ Assign(FlushBuffer("ktimer", Cur))
  /\ last' = Step("ktimer")
  /\ UNCHANGED <<input, output, instances, topic, committed, table, accepted,
                 fails>>

\* A variant of CTimer without the test of the buffer's length.
CTimerUnguarded ==
  /\ Alive
  /\ fl["ctimer"].pc = "idle"
  /\ Assign(InsertBatch("ctimer", Cur))
  /\ last' = Step("ctimer")
  /\ UNCHANGED <<input, output, instances, topic, committed, table, accepted,
                 fails>>

\* The periodic flush of setupBatchProcessing fires.
CTimer ==
  /\ Alive
  /\ fl["ctimer"].pc = "idle"
  /\ Len(ctrlBuffer) > 0
  /\ Assign(InsertBatch("ctimer", Cur))
  /\ last' = Step("ctimer")
  /\ UNCHANGED <<input, output, instances, topic, committed, table, accepted,
                 fails>>

\* MySQL runs the oldest command of the connection and answers it.
DbExec ==
  /\ Alive
  /\ dbq # <<>>
  /\ LET c == Head(dbq)
         s == [Cur EXCEPT !.dbq = Tail(@)]
     IN  /\ IF CmdOk(c)
              THEN table' = TableAfter(c) /\ Assign(Resume(c, s))
              ELSE table' = table /\ Assign(FailCmd(c, s))
         /\ last' = Answer(c, CmdOk(c))
  /\ UNCHANGED <<input, output, instances, topic, committed, accepted, fails>>

\* MySQL fails the oldest command (a lost connection, a deadlock, a full
\* disk): the statement has no effect.
DbFail ==
  /\ Alive
  /\ dbq # <<>>
  /\ Head(dbq).op # "end"
  /\ fails < MaxFails
  /\ fails' = fails + 1
  /\ Assign(FailCmd(Head(dbq), [Cur EXCEPT !.dbq = Tail(@)]))
  /\ last' = Answer(Head(dbq), FALSE)
  /\ UNCHANGED <<input, output, instances, topic, committed, table, accepted>>

\* A signal handler of the consumer's main calls ConsumerController.destroy:
\* BaseKafka.disconnect and onDisconnect up to the first await of I/O.
Shutdown ==
  /\ phase = "running"
  /\ Assign(Destroy(Cur))
  /\ last' = Step("signal")
  /\ UNCHANGED <<input, output, instances, topic, committed, table, accepted,
                 fails>>

\* consumer.disconnect() returns, once the running eachMessage has: then
\* isConnected = false, and DatabaseService.destroy up to connection.end().
KafkaDisconnected ==
  /\ Alive
  /\ fl["drain"].pc = "kdisc"
  /\ fl["msg"].pc = "idle"
  /\ Assign(Disconnected(Cur))
  /\ last' = Step("disconnected")
  /\ UNCHANGED <<input, output, instances, topic, committed, table,
                 accepted, fails>>

\* autoCommit: kafkajs commits the offsets eachMessage has returned for.
AutoCommit ==
  /\ Alive
  /\ isConnected
  /\ committed < next - 1
  /\ committed' = next - 1
  /\ UNCHANGED <<input, output, instances, topic, next, messageBuffer,
                 currentSchema, isConnected,
                 ctrlBuffer, tableInitialized, isInitialized, fl, dbq,
                 connEnding, table, phase, accepted, sunk, createCalls,
                 fails>>
  /\ last' = Step("commit")

\* The consumer runs: no signal, and MySQL fails no command of its own.
Next == Deliver \/ KTimer \/ CTimer \/ DbExec \/ AutoCommit

Spec == Init /\ [][Next]_vars

\* The same, over a topic whose units carry different schemas.
SpecDrift == InitDrift /\ [][Next]_vars

\* With a shutdown signal.
NextShutdown == Next \/ Shutdown \/ KafkaDisconnected

SpecShutdown == Init /\ [][NextShutdown]_vars

\* With a shutdown signal and storage failures.
NextFail == NextShutdown \/ DbFail

SpecFail == Init /\ [][NextFail]_vars

\* DatabaseService.destroy called by flow f, up to connection.end(): when
\* the service is not initialized any more it returns at once and the signal
\* handler goes on to process.exit(0).
DatabaseDestroy(f, s) ==
  IF ~s.isInitialized
    THEN [s EXCEPT !.fl[f] = IdleFlow, !.phase = "stopped"]
    ELSE [s EXCEPT !.fl[f].pc = "dbend",
                   !.dbq = Append(@, [flow |-> f, op |-> "end",
                                      rows |-> <<>>, schema |-> NoSchema]),
                   !.connEnding = TRUE]

\* ConsumerController.destroy called while an earlier call has not
\* returned: BaseKafka.disconnect tests isConnected, which the earlier call
\* clears only after onDisconnect.
DestroyAgain(s) ==
  IF ~s.isConnected
    THEN DatabaseDestroy("drain2", s)
    ELSE IF Len(s.messageBuffer) > 0 /\ s.currentSchema # NoSchema
           THEN FlushBuffer("drain2", s)
           ELSE AfterFlush("drain2", s)

\* The other signal arrives while the handler of the first is still in
\* destroy: SIGINT and SIGTERM each have a handler that calls destroy.
ShutdownAgain ==
  /\ phase = "draining"
  /\ fl["drain2"].pc = "idle"
  /\ Assign(DestroyAgain(Cur))
  /\ last' = Step("signal2")
  /\ UNCHANGED <<input, output, instances, topic, committed, table, accepted,
                 fails>>

\* consumer.disconnect() of the second destroy returns: isConnected = false,
\* and DatabaseService.destroy.
KafkaDisconnectedAgain ==
  /\ Alive
  /\ fl["drain2"].pc = "kdisc"
  /\ fl["msg"].pc = "idle"
  /\ Assign(DatabaseDestroy("drain2", [Cur EXCEPT !.isConnected = FALSE]))
  /\ last' = Step("disconnected2")
  /\ UNCHANGED <<input, output, instances, topic, committed, table,
                 accepted, fails>>

\* With both shutdown signals.
NextSignals == NextShutdown \/ ShutdownAgain \/ KafkaDisconnectedAgain

SpecSignals == Init /\ [][NextSignals]_vars

\* Units and storage failures, without the periodic flush of startConsuming
\* and without a signal: every flushBuffer run is the size flush of the unit
\* being handled.
NextRetry == Deliver \/ CTimer \/ DbExec \/ DbFail \/ AutoCommit

SpecRetry == Init /\ [][NextRetry]_vars

\* The consumer's main runs again after the process has ended: a new
\* ConsumerController with new services, initialized and started.  The
\* group resumes after the last committed offset, and the table is MySQL's.
Restart ==
  /\ phase \in {"stopped", "crashed"}
  /\ next' = committed + 1
  /\ messageBuffer' = <<>>
  /\ currentSchema' = NoSchema
  /\ isConnected' = TRUE
  /\ ctrlBuffer' = <<>>
  /\ tableInitialized' = FALSE
  /\ isInitialized' = TRUE
  /\ fl' = [f \in Flows |-> IdleFlow]
  /\ dbq' = <<>>
  /\ connEnding' = FALSE
  /\ phase' = "running"
  /\ last' = Step("restart")
  /\ UNCHANGED <<input, output, instances, topic, committed, table, accepted,
                 sunk, createCalls, fails>>

\* With a shutdown signal and a restart.
NextRestart == NextShutdown \/ Restart

SpecRestart == Init /\ [][NextRestart]_vars

----------------------------------------------------------------------------
\* Several ConsumerControllers in one process, each constructed with its own
\* KafkaConsumerService and DatabaseService and reading its own partition.
\* Every command an instance issues on its connection succeeds here, and
\* destroy is called on an instance without ending the process.

Instances == {1, 2}

\* Number of units in the partition of an instance.
InstUnits == 2

\* The fields of an instance after initialize and start.
NewInstance ==
  [messageBuffer |-> <<>>, ctrlBuffer |-> <<>>, tableInitialized |-> FALSE,
   isInitialized |-> TRUE, fl |-> [f \in Flows |-> IdleFlow], dbq |-> <<>>,
   connEnding |-> FALSE, next |-> 1, phase |-> "running", sunk |-> <<>>,
   createCalls |-> 0, isConnected |-> TRUE, currentSchema |-> NoSchema]

\* A variant of Put for a messageBuffer declared at module level, which all
\* instances share.
PutShared(k, s) ==
  [j \in Instances |->
     IF j = k THEN s
     ELSE [instances[j] EXCEPT !.messageBuffer = s.messageBuffer]]

\* The code of instance k writes its fields: the private fields of its
\* KafkaConsumerService and ConsumerController, and the variables its
\* setupBatchProcessing closed over.
Put(k, s) == [instances EXCEPT ![k] = s]

\* An unhandled rejection in any instance ends the process.
ProcessUp == \A j \in Instances : instances[j].phase # "crashed"

\* A step of instance k that leaves its fields as s.
Call(k, s) ==
  /\ ProcessUp
  /\ instances' = Put(k, s)
  /\ input' = [fn |-> "instance", inst |-> k]
  /\ UNCHANGED <<output, cvars>>

InitInstances ==
  /\ ConsumerIdle
  /\ input = NoCall
  /\ output = NoCall
  /\ instances = [k \in Instances |-> NewInstance]

\* kafkajs hands instance k the next unit of its partition.
InstDeliver(k) ==
  LET s == instances[k]
  IN  /\ s.phase \in {"running", "draining"}
      /\ s.isConnected
      /\ s.fl["drain"].pc \notin {"kdisc", "dbend"}
      /\ s.fl["msg"].pc = "idle"
      /\ s.next <= InstUnits
      /\ Call(k, HandleMessage(s, SchemaA,
                            [id |-> s.next, cols |-> SchemaA, part |-> k]))

\* The periodic flush of instance k's startConsuming fires; destroy does not
\* clear the interval.
InstKTimer(k) ==
  LET s == instances[k]
  IN  /\ s.fl["ktimer"].pc = "idle"
      /\ Len(s.messageBuffer) > 0
      /\ Call(k, FlushBuffer("ktimer", s))

\* The periodic flush of instance k's setupBatchProcessing fires; destroy
\* does not clear the interval.
InstCTimer(k) ==
  LET s == instances[k]
  IN  /\ s.fl["ctimer"].pc = "idle"
      /\ Len(s.ctrlBuffer) > 0
      /\ Call(k, InsertBatch("ctimer", s))

\* MySQL answers the oldest command of instance k's connection.
InstDbExec(k) ==
  LET s == instances[k]
  IN  /\ s.dbq # <<>>
      /\ Call(k, Resume(Head(s.dbq), [s EXCEPT !.dbq = Tail(@)]))

\* destroy is called on instance k.
InstDestroy(k) ==
  LET s == instances[k]
  IN  /\ s.phase = "running"
      /\ Call(k, Destroy(s))

\* Instance k's consumer.disconnect() returns.
InstDisconnected(k) ==
  LET s == instances[k]
  IN  /\ s.fl["drain"].pc = "kdisc"
      /\ s.fl["msg"].pc = "idle"
      /\ Call(k, Disconnected(s))

NextInstances ==
  \E k \in Instances :
    \/ InstDeliver(k)
    \/ InstKTimer(k)
    \/ InstCTimer(k)
    \/ InstDbExec(k)
    \/ InstDestroy(k)
    \/ InstDisconnected(k)

SpecInstances == InitInstances /\ [][NextInstances]_vars

----------------------------------------------------------------------------
\* ParserService: the types of columns

\* enum DataType
DataTypes ==
  {"INT", "BIGINT", "FLOAT", "VARCHAR", "TEXT", "DATE", "TIMESTAMP", "BOOLEAN"}

\* The priority table of mergeDataTypes.
priority(t) ==
  CASE t = "TEXT" -> 8
    [] t = "VARCHAR" -> 7
    [] t = "FLOAT" -> 6
    [] t = "BIGINT" -> 5
    [] t = "INT" -> 4
    [] t = "TIMESTAMP" -> 3
    [] t = "DATE" -> 2
    [] t = "BOOLEAN" -> 1

\* A variant of mergeDataTypes that keeps the type seen last.
mergeDataTypesLast(type1, type2) == type2

\* ParserService.mergeDataTypes
mergeDataTypes(type1, type2) ==
  IF type1 = type2 THEN type1
  ELSE IF priority(type1) > priority(type2) THEN type1 ELSE type2

\* mergeDataTypes over every three types.
InitMerge ==
  /\ ConsumerIdle
  /\ input \in {[fn |-> "mergeDataTypes", a |-> a, b |-> b, c |-> c] :
                  a \in DataTypes, b \in DataTypes, c \in DataTypes}
  /\ output = NoCall
  /\ instances = <<>>

\* The calls of mergeDataTypes on the three types, nested both ways.
MergeTypes ==
  /\ input.fn = "mergeDataTypes"
  /\ output = NoCall
  /\ output' = [fn |-> "mergeDataTypes",
                aa |-> mergeDataTypes(input.a, input.a),
                ab |-> mergeDataTypes(input.a, input.b),
                ba |-> mergeDataTypes(input.b, input.a),
                left |-> mergeDataTypes(mergeDataTypes(input.a, input.b),
                                        input.c),
                right |-> mergeDataTypes(input.a,
                                         mergeDataTypes(input.b, input.c))]
  /\ UNCHANGED <<input, instances, cvars>>

NextMerge == MergeTypes

SpecMerge == InitMerge /\ [][NextMerge]_vars

----------------------------------------------------------------------------
\* ParserService: strings.  A string is the sequence of its characters.

Digits == {"0", "1", "2", "3", "4", "5", "6", "7", "8", "9"}

\* What \s matches, among the characters of the texts drawn.
Whitespace == {" ", "\t", "\n"}

UpperCase ==
  <<"A", "B", "C", "D", "E", "F", "G", "H", "I", "J", "K", "L", "M">>
    \o <<"N", "O", "P", "Q", "R", "S", "T", "U", "V", "W", "X", "Y", "Z">>

LowerCase ==
  <<"a", "b", "c", "d", "e", "f", "g", "h", "i", "j", "k", "l", "m">>
    \o <<"n", "o", "p", "q", "r", "s", "t", "u", "v", "w", "x", "y", "z">>

\* String.prototype.toLowerCase
toLowerCase(str) ==
  [i \in DOMAIN str |->
     IF \E k \in DOMAIN UpperCase : UpperCase[k] = str[i]
       THEN LowerCase[CHOOSE k \in DOMAIN UpperCase : UpperCase[k] = str[i]]
       ELSE str[i]]

RECURSIVE trimStart(_)
trimStart(str) ==
  IF str # <<>> /\ Head(str) \in Whitespace THEN trimStart(Tail(str)) ELSE str

RECURSIVE trimEnd(_)
trimEnd(str) ==
  IF str # <<>> /\ str[Len(str)] \in Whitespace
    THEN trimEnd(SubSeq(str, 1, Len(str) - 1))
    ELSE str

\* String.prototype.trim
trim(str) == trimEnd(trimStart(str))

\* The pieces pieces[lo], ..., pieces[hi] in one string.
RECURSIVE Join(_, _, _)
Join(pieces, lo, hi) ==
  IF lo > hi THEN <<>>
  ELSE IF lo = hi THEN pieces[lo]
  ELSE Join(pieces, lo, (lo + hi) \div 2)
         \o Join(pieces, ((lo + hi) \div 2) + 1, hi)

\* str.replace(/\s+/g, by): every run of whitespace becomes by.
ReplaceSpaces(str, by) ==
  Join([i \in DOMAIN str |->
          IF str[i] \notin Whitespace THEN <<str[i]>>
          ELSE IF i > 1 /\ str[i - 1] \in Whitespace THEN <<>>
          ELSE by],
       1, Len(str))

\* The "]" that ends the match of /\[.*?\]/ at the "[" in place i, if any:
\* the nearest one behind it, with no line break in between.
Closing(str, i) ==
  {j \in (i + 1)..Len(str) :
     /\ str[j] = "]"
     /\ \A k \in (i + 1)..(j - 1) : str[k] \notin {"]", "\n"}}

\* str.replace(/\[.*?\]/g, "")
RECURSIVE StripBrackets(_)
StripBrackets(str) ==
  LET opens == {i \in DOMAIN str : str[i] = "[" /\ Closing(str, i) # {}}
  IN  IF opens = {} THEN str
      ELSE LET i == CHOOSE o \in opens : \A q \in opens : o <= q
               j == CHOOSE c \in Closing(str, i) : TRUE
           IN  SubSeq(str, 1, i - 1)
                 \o StripBrackets(SubSeq(str, j + 1, Len(str)))

\* str.replace(/,/g, "")
RemoveCommas(str) == SelectSeq(str, LAMBDA c : c # ",")

\* ParserService.cleanValue
cleanValue(value) == trim(StripBrackets(ReplaceSpaces(value, <<" ">>)))

\* An empty-cell test that knows the empty text only.
IsEmptyCellBlank(str) == str = <<>>

\* The test of inferDataType and convertValue for an empty cell.
IsEmptyCell(str) == str = <<>> \/ str = <<"-">> \/ str = <<"N", "/", "A">>

\* str starts with one character of each set of pattern, in order.
StartsWith(str, pattern) ==
  /\ Len(str) >= Len(pattern)
  /\ \A i \in DOMAIN pattern : str[i] \in pattern[i]

Times(n, set) == [i \in 1..n |-> set]

\* /^-?\d+$/
IsInteger(str) ==
  LET d == IF str # <<>> /\ Head(str) = "-" THEN Tail(str) ELSE str
  IN  d # <<>> /\ \A i \in DOMAIN d : d[i] \in Digits

\* /^-?\d+\.\d+$/
IsFloat(str) ==
  LET d == IF str # <<>> /\ Head(str) = "-" THEN Tail(str) ELSE str
  IN  \E p \in 2..(Len(d) - 1) :
        /\ d[p] = "."
        /\ \A i \in DOMAIN d : i # p => d[i] \in Digits

\* \d{4}-\d{2}-\d{2}
IsoDate ==
  Times(4, Digits) \o <<{"-"}>> \o Times(2, Digits) \o <<{"-"}>>
    \o Times(2, Digits)

\* /^\d{4}-\d{2}-\d{2}$/
IsDate(str) == Len(str) = Len(IsoDate) /\ StartsWith(str, IsoDate)

\* /^\d{4}-\d{2}-\d{2}[T\s]\d{2}:\d{2}(:\d{2})?/, which has no end anchor
IsTimestamp(str) ==
  StartsWith(str, IsoDate \o <<{"T"} \cup Whitespace>> \o Times(2, Digits)
                    \o <<{":"}>> \o Times(2, Digits))

\* /^\d{1,2}[\/\-]\d{1,2}[\/\-]\d{2,4}$/
IsCommonDate(str) ==
  \E a \in 1..2, b \in 1..2, c \in 2..4 :
    LET pattern == Times(a, Digits) \o <<{"/", "-"}>> \o Times(b, Digits)
                     \o <<{"/", "-"}>> \o Times(c, Digits)
    IN  Len(str) = Len(pattern) /\ StartsWith(str, pattern)

\* The digits of a number without leading zeros.
RECURSIVE Canonical(_)
Canonical(d) ==
  IF Len(d) > 1 /\ Head(d) = "0" THEN Canonical(Tail(d)) ELSE d

\* The digits, by value.
Decimals == <<"0", "1", "2", "3", "4", "5", "6", "7", "8", "9">>

\* The value of a digit.
DigitValue(c) == CHOOSE v \in 0..9 : Decimals[v + 1] = c

\* A comparison that also holds for equal numbers.
RECURSIVE LargerOrSame(_, _)
LargerOrSame(a, b) ==
  IF Len(a) # Len(b) THEN Len(a) > Len(b)
  ELSE IF a = <<>> THEN TRUE
  ELSE IF Head(a) # Head(b) THEN DigitValue(Head(a)) > DigitValue(Head(b))
  ELSE LargerOrSame(Tail(a), Tail(b))

\* The number with digits a is larger than the number with digits b (both
\* without leading zeros).
RECURSIVE Larger(_, _)
Larger(a, b) ==
  IF Len(a) # Len(b) THEN Len(a) > Len(b)
  ELSE IF a = <<>> THEN FALSE
  ELSE IF Head(a) # Head(b) THEN DigitValue(Head(a)) > DigitValue(Head(b))
  ELSE Larger(Tail(a), Tail(b))

\* 2147483647 and 2147483648, by their digits.
Int32Max == <<"2", "1", "4", "7", "4", "8", "3", "6", "4", "7">>

Int32MinMagnitude == <<"2", "1", "4", "7", "4", "8", "3", "6", "4", "8">>

\* A length above which inferDataType calls a value TEXT.
TextThreshold == 255

\* ParserService.inferDataType
inferDataType(value) ==
  LET trimmed == trim(value)
      plain == RemoveCommas(trimmed)
      negative == plain # <<>> /\ Head(plain) = "-"
      magnitude == Canonical(IF negative THEN Tail(plain) ELSE plain)
  IN  IF IsEmptyCell(trimmed) THEN "VARCHAR"
      ELSE IF toLowerCase(trimmed) \in
                {<<"t", "r", "u", "e">>, <<"f", "a", "l", "s", "e">>,
                 <<"y", "e", "s">>,
                 <<"n", "o">>}
        THEN "BOOLEAN"
      ELSE IF IsInteger(plain)
        THEN IF \/ ~negative /\ Larger(magnitude, Int32Max)
                \/ negative /\ Larger(magnitude, Int32MinMagnitude)
               THEN "BIGINT" ELSE "INT"
      ELSE IF IsFloat(plain) THEN "FLOAT"
      ELSE IF IsDate(trimmed) THEN "DATE"
      ELSE IF IsTimestamp(trimmed) THEN "TIMESTAMP"
      ELSE IF IsCommonDate(trimmed) THEN "DATE"
      ELSE IF Len(trimmed) > TextThreshold THEN "TEXT"
      ELSE "VARCHAR"

\* [a-z0-9_]
NameChars == {LowerCase[k] : k \in DOMAIN LowerCase} \cup Digits \cup {"_"}

\* The length sanitizeColumnName cuts a name to.
MaxNameLength == 64

\* ParserService.sanitizeColumnName
sanitizeColumnName(name) ==
  LET spaced == ReplaceSpaces(toLowerCase(trim(name)), <<"_">>)
      kept == SelectSeq(spaced, LAMBDA c : c \in NameChars)
      named == IF kept # <<>> /\ Head(kept) \in Digits
                 THEN <<"c", "o", "l", "_">> \o kept ELSE kept
  IN  SubSeq(named, 1, IF Len(named) < MaxNameLength THEN Len(named)
                       ELSE MaxNameLength)

\* The values of a TableRow: null, a string, a boolean, a number (its sign,
\* the digits before and the digits behind the point) or NaN.
Null == [t |-> "null"]

NaN == [t |-> "NaN"]

StringValue(str) == [t |-> "string", v |-> str]

BooleanValue(b) == [t |-> "boolean", v |-> b]

NumberValue(negative, int, frac) ==
  [t |-> "number",
   neg |-> negative /\ (Canonical(int) # <<"0">> \/ frac # <<>>),
   int |-> Canonical(int), frac |-> frac]

\* The digits str starts with.
LeadingDigits(str) ==
  LET others == {i \in DOMAIN str : str[i] \notin Digits}
  IN  IF others = {} THEN str
      ELSE SubSeq(str, 1, (CHOOSE i \in others :
                             \A j \in others : i <= j) - 1)

\* Behind the point, zeros at the end do not count.
RECURSIVE DropZeros(_)
DropZeros(d) ==
  IF d # <<>> /\ d[Len(d)] = "0" THEN DropZeros(SubSeq(d, 1, Len(d) - 1))
  ELSE d

\* parseInt(str), radix 10: white space, a sign, then the digits up to the
\* first other character.  (No text drawn starts with 0x, and none has more
\* digits than a double holds exactly.)
parseInt(str) ==
  LET s == trimStart(str)
      signed == s # <<>> /\ Head(s) \in {"-", "+"}
      d == LeadingDigits(IF signed THEN Tail(s) ELSE s)
  IN  IF d = <<>> THEN NaN
      ELSE NumberValue(signed /\ Head(s) = "-", d, <<>>)

\* parseFloat(str): white space, a sign, digits, and a point with digits.
\* (No text drawn has an exponent or spells Infinity.)
parseFloat(str) ==
  LET s == trimStart(str)
      signed == s # <<>> /\ Head(s) \in {"-", "+"}
      body == IF signed THEN Tail(s) ELSE s
      int == LeadingDigits(body)
      rest == SubSeq(body, Len(int) + 1, Len(body))
      frac == IF rest # <<>> /\ Head(rest) = "."
                THEN LeadingDigits(Tail(rest)) ELSE <<>>
  IN  IF int = <<>> /\ frac = <<>> THEN NaN
      ELSE NumberValue(signed /\ Head(s) = "-",
                       IF int = <<>> THEN <<"0">> ELSE int, DropZeros(frac))

\* ParserService.convertValue
convertValue(value, dataType) ==
  LET cleaned == cleanValue(value)
  IN  IF IsEmptyCell(cleaned) THEN Null
      ELSE IF dataType \in {"INT", "BIGINT"}
        THEN parseInt(RemoveCommas(cleaned))
      ELSE IF dataType = "FLOAT" THEN parseFloat(RemoveCommas(cleaned))
      ELSE IF dataType = "BOOLEAN"
        THEN BooleanValue(toLowerCase(cleaned) \in
                            {<<"t", "r", "u", "e">>, <<"y", "e", "s">>})
      ELSE StringValue(cleaned)

\* The smallest maxLength of a VARCHAR column.
VarcharLength == 255

\* inferSchema's rows.forEach for the column colIndex, from the values
\* inferredType and maxLength have before the first row of rows.
RECURSIVE ScanColumn(_, _, _, _)
ScanColumn(rows, colIndex, inferredType, maxLength) ==
  IF rows = <<>> THEN [type |-> inferredType, maxLength |-> maxLength]
  ELSE IF colIndex \in DOMAIN Head(rows) /\ Head(rows)[colIndex] # <<>>
    THEN LET value == cleanValue(Head(rows)[colIndex])
         IN  ScanColumn(Tail(rows), colIndex,
                        mergeDataTypes(inferredType, inferDataType(value)),
                        IF Len(value) > maxLength THEN Len(value)
                        ELSE maxLength)
  ELSE ScanColumn(Tail(rows), colIndex, inferredType, maxLength)

\* A ColumnSchema whose maxLength is the longest scanned length, without the
\* floor of VarcharLength.
ColumnNoFloor(header, colIndex, rows) ==
  LET scanned == ScanColumn(rows, colIndex, "VARCHAR", 0)
  IN  IF scanned.type = "VARCHAR"
        THEN [name |-> sanitizeColumnName(header), type |-> scanned.type,
              maxLength |-> scanned.maxLength]
        ELSE [name |-> sanitizeColumnName(header), type |-> scanned.type]

\* The ColumnSchema inferSchema pushes for a header: maxLength is undefined
\* unless the type is VARCHAR.
Column(header, colIndex, rows) ==
  LET scanned == ScanColumn(rows, colIndex, "VARCHAR", 0)
  IN  IF scanned.type = "VARCHAR"
        THEN [name |-> sanitizeColumnName(header), type |-> scanned.type,
              maxLength |-> IF scanned.maxLength > VarcharLength
                              THEN scanned.maxLength ELSE VarcharLength]
        ELSE [name |-> sanitizeColumnName(header), type |-> scanned.type]

\* ParserService.inferSchema
inferSchema(headers, rows) ==
  [columns |-> [c \in DOMAIN headers |-> Column(headers[c], c, rows)]]

\* row[key] = value on a TableRow, whose keys keep the order in which they
\* were first set.
SetKey(row, key, value) ==
  IF \E k \in DOMAIN row : row[k].key = key
    THEN [k \in DOMAIN row |->
            IF row[k].key = key THEN [key |-> key, value |-> value]
            ELSE row[k]]
    ELSE Append(row, [key |-> key, value |-> value])

\* parseTable's schema.columns.forEach over one row of cells, from column
\* idx on.
RECURSIVE ConvertRow(_, _, _, _)
ConvertRow(columns, rowCells, idx, row) ==
  IF idx > Len(columns) THEN row
  ELSE LET value == IF idx \in DOMAIN rowCells THEN rowCells[idx] ELSE <<>>
       IN  ConvertRow(columns, rowCells, idx + 1,
                      SetKey(row, columns[idx].name,
                             convertValue(value, columns[idx].type)))

\* The decimal digits of a natural number.
RECURSIVE NatToString(_)
NatToString(n) ==
  IF n < 10 THEN <<Decimals[n + 1]>>
  ELSE NatToString(n \div 10) \o <<Decimals[(n % 10) + 1]>>

\* parseTable's test of a row of cells against the headers.
IsHeaderRow(cells, headers) ==
  \A idx \in DOMAIN cells :
    /\ idx \in DOMAIN headers
    /\ toLowerCase(cleanValue(cells[idx])) = toLowerCase(headers[idx])

\* ParserService.parseTable, on the rows (tr) of a table element, each the
\* texts of its cells (td, th).
parseTable(trs) ==
  LET first == IF trs = <<>> THEN <<>> ELSE Head(trs)
      found == SelectSeq([i \in DOMAIN first |-> trim(first[i])],
                         LAMBDA h : h # <<>>)
      headers == IF found # <<>> THEN found
                 ELSE [i \in DOMAIN first |->
                         <<"c", "o", "l", "u", "m", "n", "_">>
                            \o NatToString(i)]
      rawRows == SelectSeq(trs, LAMBDA cells :
                   /\ Len(cells) > 0
                   /\ \E i \in DOMAIN cells : trim(cells[i]) # <<>>
                   /\ ~IsHeaderRow(cells, headers))
      schema == inferSchema(headers, rawRows)
  IN  [fn |-> "parseTable", headers |-> headers, rawRows |-> rawRows,
       schema |-> schema,
       rows |-> [r \in DOMAIN rawRows |->
                   ConvertRow(schema.columns, rawRows[r], 1, <<>>)]]

\* Rows of column tables, and rows and columns of tables with drawn headers.
NumRows == 2

NumCols == 2

TableRows == 2

\* A text longer than TextThreshold.
LongText == [i \in 1..(TextThreshold + 1) |-> "x"]

\* An integer of more digits than VarcharLength.
LongNumber == [i \in 1..(VarcharLength + 1) |-> "9"]

\* Texts of the cells of a column.
CellTexts ==
  {<<"3", "0">>, <<"4", "0">>, Int32MinMagnitude, <<>>,
   <<"-">>, <<"N", "/", "A">>,
   <<"t", "r", "u", "e">>, <<"1", ".", "5">>,
   <<"2", "0", "2", "4", "-", "0", "1", "-", "1", "5">>,
   <<"J", "o", "h", "n">>, <<" ", "7", " ", "[", "1", "]">>, LongText,
   LongNumber, <<"[", "1", "]">>}

\* Texts of header cells.
HeaderTexts ==
  {<<"N", "a", "m", "e">>, <<"A", "g", "e">>, <<"n", "a", "m", "e">>,
   <<"U", "n", "i", "t", " ", "P", "r", "i", "c", "e">>,
   <<"2", "n", "d">>, <<>>}

\* Rows of cells under the drawn headers.
BodyRows ==
  {<<<<"J", "o", "h", "n">>, <<"3", "0">>>>, <<<<>>, <<>>>>,
   <<<<"J", "a", "n", "e">>>>}

\* Tables of one column.
ColumnTables ==
  {<<<<<<"A", "g", "e">>>>>> \o [r \in 1..NumRows |-> <<cells[r]>>] :
     cells \in [1..NumRows -> CellTexts]}

\* Tables with drawn headers.
HeaderTables ==
  {<<headers>> \o body :
     headers \in [1..NumCols -> HeaderTexts],
     body \in [1..TableRows -> BodyRows]}

\* The table of the data flow diagram, with a row of empty cells.
NameAgeTable ==
  <<<<<<"N", "a", "m", "e">>, <<"A", "g", "e">>>>,
    <<<<"J", "o", "h", "n">>, <<"3", "0">>>>,
    <<<<>>, <<>>>>>>

\* A column with two values that fit 32 bits and one that does not, and a
\* table whose headers are repeated in its body.
AgeTable ==
  <<<<<<"A", "g", "e">>>>, <<<<"3", "0">>>>,
    <<<<"4", "0">>>>, <<Int32MinMagnitude>>>>

RepeatedHeaderTable ==
  <<<<<<"N", "a", "m", "e">>, <<"A", "g", "e">>>>,
    <<<<"J", "o", "h", "n">>, <<"3", "0">>>>,
    <<<<"n", "a", "m", "e", " ">>, <<"A", "G", "E", "[", "1", "]">>>>>>

\* A table with a text longer than TextThreshold and an empty cell.
NotesTable ==
  <<<<<<"N", "a", "m", "e">>, <<"N", "o", "t", "e", "s">>>>,
    <<<<"J", "o", "h", "n">>, LongText>>,
    <<<<"J", "a", "n", "e">>, <<"N", "/", "A">>>>>>

ScenarioTables == {NameAgeTable, AgeTable, RepeatedHeaderTable, NotesTable}

InitParse ==
  /\ ConsumerIdle
  /\ input \in {[fn |-> "parseTable", trs |-> trs] :
                  trs \in ColumnTables \cup HeaderTables \cup ScenarioTables}
  /\ output = NoCall
  /\ instances = <<>>

\* parseHtml calls parseTable on a table element.
ParseTable ==
  /\ input.fn = "parseTable"
  /\ output = NoCall
  /\ output' = parseTable(input.trs)
  /\ UNCHANGED <<input, instances, cvars>>

NextParse == ParseTable

SpecParse == InitParse /\ [][NextParse]_vars

----------------------------------------------------------------------------
\* The type of one value

\* Leading zeros put before a magnitude.
LeadingZeros == 1

\* Magnitudes around the ends of the 32-bit range, with and without commas.
Magnitudes ==
  {<<"0">>, <<"7">>, <<"1", ",", "0", "0", "0">>,
   <<"2", "1", "4", "7", "4", "8", "3", "6", "4">>,
   <<"9", "9", "9", "9", "9", "9", "9", "9", "9">>,
   <<"1", "0", "0", "0", "0", "0", "0", "0", "0", "0">>,
   <<"2", "1", "4", "7", "4", "8", "3", "6", "4", "6">>, Int32Max,
   Int32MinMagnitude, <<"2", "1", "4", "7", "4", "8", "3", "6", "4", "9">>,
   <<"2", ",", "1", "4", "7", ",", "4", "8", "3", ",", "6", "4", "7">>,
   <<"2", ",", "1", "4", "7", ",", "4", "8", "3", ",", "6", "4", "8">>,
   <<"2", "1", "4", "7", "4", "8", "3", "6", "5", "0">>,
   <<"2", "1", "4", "7", "4", "8", "3", "6", "5", "7">>,
   <<"3", "0", "0", "0", "0", "0", "0", "0", "0", "0">>,
   <<"9", "9", "9", "9", "9", "9", "9", "9", "9", "9">>,
   <<"2", "1", "4", "7", "4", "8", "3", "6", "4", "7", "0">>,
   [i \in 1..20 |-> "9"]}

\* Values that are no integers.
OtherValues ==
  {<<>>, <<"-">>, <<"N", "/", "A">>, <<"+", "5">>, <<"-", "-", "5">>,
   <<"5", "-">>, <<"1", ".", "5">>,
   <<"2", "1", "4", "7", "4", "8", "3", "6", "4", "8", ".", "0">>,
   <<"1", "2", "a">>, <<"1", "e", "5">>, <<"t", "r", "u", "e">>,
   <<"J", "o", "h", "n">>,
   <<"2", "0", "2", "4", "-", "0", "1", "-", "1", "5">>, <<",">>}

\* The values inferDataType is called with.
Values ==
  {sign \o [i \in 1..z |-> "0"] \o m :
     sign \in {<<>>, <<"-">>}, z \in 0..LeadingZeros, m \in Magnitudes}
    \cup OtherValues

InitClassify ==
  /\ ConsumerIdle
  /\ input \in {[fn |-> "inferDataType", value |-> v] : v \in Values}
  /\ output = NoCall
  /\ instances = <<>>

\* inferSchema calls inferDataType on a cleaned value.
InferDataType ==
  /\ input.fn = "inferDataType"
  /\ output = NoCall
  /\ output' = [fn |-> "inferDataType", type |-> inferDataType(input.value)]
  /\ UNCHANGED <<input, instances, cvars>>

NextClassify == InferDataType

SpecClassify == InitClassify /\ [][NextClassify]_vars

----------------------------------------------------------------------------
\* HttpService.fetchHtml

\* The largest maxRetries and retryDelay drawn.
MaxRetries == 3

MaxRetryDelay == 2

\* What axios.get settles with: the document, or an error that has a
\* response with a status or has none (network error, timeout).
Document ==
  [ok |-> TRUE, data |-> StringValue(<<"<", "h", "t", "m", "l", ">">>)]

ResponseError(status) ==
  [ok |-> FALSE, response |-> TRUE, status |-> status,
   message |-> "Request failed with status code"]

NetworkError ==
  [ok |-> FALSE, response |-> FALSE, status |-> 0, message |-> "ECONNRESET"]

TimeoutError ==
  [ok |-> FALSE, response |-> FALSE, status |-> 0,
   message |-> "timeout exceeded"]

Outcomes ==
  {Document, NetworkError, TimeoutError}
    \cup {ResponseError(status) : status \in {304, 400, 404, 429, 500, 503}}

\* A test that lets every error be tried again.
isRetriableErrorAlways(error) == TRUE

\* HttpService.isRetriableError
isRetriableError(error) ==
  IF ~error.response THEN TRUE
  ELSE error.status >= 500 \/ error.status = 429

\* A wait that does not grow with the attempt.
delayFlat(retryDelay, attempt) == retryDelay

\* const delay = this.retryDelay * attempt
delay(retryDelay, attempt) == retryDelay * attempt

\* lastError?.message
ErrorMessage(lastError) ==
  IF lastError = Null THEN "undefined" ELSE lastError.message

\* A terminal error that tells the number of attempts only.
TerminalErrorBare(maxRetries, lastError) ==
  [kind |-> "Error", attempts |-> maxRetries, message |-> "undefined"]

\* new Error(`Failed to fetch URL after ... attempts: ...`)
TerminalError(maxRetries, lastError) ==
  [kind |-> "Error", attempts |-> maxRetries,
   message |-> ErrorMessage(lastError)]

\* The error of BaseService.ensureInitialized.
NotInitialized == [kind |-> "Error", message |-> "is not initialized"]

\* fetchHtml has settled: it returned data or threw error.
Returned(call, data) ==
  [call EXCEPT !.pc = "done", !.returned = TRUE, !.data = data]

Thrown(call, error) ==
  [call EXCEPT !.pc = "done", !.thrown = TRUE, !.error = error]

\* The call of axios.get of one attempt.
Get(call, attempt) == [call EXCEPT !.pc = "get", !.attempt = attempt]

InitFetch ==
  /\ ConsumerIdle
  /\ input \in {[fn |-> "fetchHtml", isInitialized |-> b, maxRetries |-> m,
                 retryDelay |-> d] :
                  b \in BOOLEAN, m \in 0..MaxRetries, d \in 1..MaxRetryDelay}
  /\ output = NoCall
  /\ instances = <<>>

\* fetchHtml up to its first await.
FetchHtml ==
  /\ input.fn = "fetchHtml"
  /\ output = NoCall
  /\ LET call == [fn |-> "fetchHtml", pc |-> "start", attempt |-> 0,
                  lastError |-> Null, requests |-> <<>>, waits |-> <<>>,
                  returned |-> FALSE, thrown |-> FALSE, data |-> Null,
                  error |-> Null]
     IN  output' =
           IF ~input.isInitialized THEN Thrown(call, NotInitialized)
           ELSE IF 1 <= input.maxRetries THEN Get(call, 1)
           ELSE Thrown(call, TerminalError(input.maxRetries, Null))
  /\ UNCHANGED <<input, instances, cvars>>

\* axios.get settles with outcome, and fetchHtml runs up to its next await
\* or to its end.
GetSettles(outcome) ==
  /\ output.fn = "fetchHtml"
  /\ output.pc = "get"
  /\ LET call == [output EXCEPT !.requests = Append(@, outcome)]
         failed == [call EXCEPT !.lastError = outcome]
     IN  output' =
           IF outcome.ok THEN Returned(call, outcome.data)
           ELSE IF output.attempt = input.maxRetries
             THEN Thrown(failed, TerminalError(input.maxRetries, outcome))
           ELSE IF ~isRetriableError(outcome) THEN Thrown(failed, outcome)
           ELSE [failed EXCEPT
                   !.pc = "sleep",
                   !.waits = Append(@, delay(input.retryDelay,
                                             output.attempt))]
  /\ UNCHANGED <<input, instances, cvars>>

\* The timer of sleep fires: attempt++ and the test of the loop.
SleepDone ==
  /\ output.fn = "fetchHtml"
  /\ output.pc = "sleep"
  /\ output' =
       IF output.attempt + 1 <= input.maxRetries
         THEN Get(output, output.attempt + 1)
         ELSE Thrown(output,
                     TerminalError(input.maxRetries, output.lastError))
  /\ UNCHANGED <<input, instances, cvars>>

NextFetch ==
  \/ FetchHtml
  \/ \E outcome \in Outcomes : GetSettles(outcome)
  \/ SleepDone

SpecFetch == InitFetch /\ [][NextFetch]_vars

\* axios.get settles (the request has a timeout) and the timer of sleep
\* fires.
SpecFetchLive == SpecFetch /\ WF_vars(NextFetch)

----------------------------------------------------------------------------
\* KafkaProducerService.sendBatch

\* A stringifyValue that writes null as the empty string.
stringifyValueBlank(value) ==
  IF value \in {NaN, Null} THEN StringValue(<<>>) ELSE value

\* What JSON.stringify writes for a value of a row: NaN becomes null.
stringifyValue(value) == IF value = NaN THEN Null ELSE value

\* JSON.stringify(message), as the members of the object it writes: a
\* column without maxLength has no such member.
stringify(message) ==
  [json |->
     [schema |-> message.schema,
      row |-> [k \in DOMAIN message.row |->
                 [key |-> message.row[k].key,
                  value |-> stringifyValue(message.row[k].value)]],
      timestamp |-> message.timestamp, sourceUrl |-> message.sourceUrl]]

\* The message of rows[index + 1]; Date.now() is now up to the row of index
\* tick and one more from there on.
Message(schema, rows, sourceUrl, now, tick, index) ==
  LET message == [schema |-> schema, row |-> rows[index + 1],
                  timestamp |-> IF index < tick THEN now ELSE now + 1,
                  sourceUrl |-> sourceUrl]
  IN  [key |-> [timestamp |-> message.timestamp, index |-> index],
       value |-> stringify(message)]

\* Messages for the first row only.
MessagesFirst(schema, rows, sourceUrl, now, tick) ==
  [i \in DOMAIN rows \cap {1} |->
     Message(schema, rows, sourceUrl, now, tick, i - 1)]

\* rows.map((row, index) => ...)
Messages(schema, rows, sourceUrl, now, tick) ==
  [i \in DOMAIN rows |-> Message(schema, rows, sourceUrl, now, tick, i - 1)]

\* The error of BaseKafka.ensureConnected.
NotConnected == [kind |-> "Error", message |-> "is not connected"]

\* The error producer.send rejects with.
SendError == [kind |-> "KafkaJSError", message |-> "send failed"]

\* Addresses of documents.
Urls == {"http://a", "http://b"}

\* The tables a batch is made of, and one without rows.
SendTables == HeaderTables \cup ScenarioTables \cup {<<>>}

InitSend ==
  /\ ConsumerIdle
  /\ input \in {[fn |-> "sendBatch", isConnected |-> b,
                 schema |-> parsed.schema, rows |-> parsed.rows,
                 sourceUrl |-> u] :
                  b \in BOOLEAN, u \in Urls,
                  parsed \in {parseTable(trs) : trs \in SendTables}}
  /\ output = NoCall
  /\ instances = <<>>

\* sendBatch up to its await of producer.send.
SendBatch ==
  /\ input.fn = "sendBatch"
  /\ output = NoCall
  /\ LET call == [fn |-> "sendBatch", pc |-> "start", sends |-> <<>>,
                  received |-> <<>>, returned |-> FALSE, thrown |-> FALSE,
                  error |-> Null]
     IN  IF ~input.isConnected
           THEN output' = Thrown(call, NotConnected)
           ELSE \E tick \in 0..Len(input.rows) :
                  output' =
                    [call EXCEPT
                       !.pc = "send",
                       !.sends =
                         <<[topic |-> "topic",
                            messages |->
                              Messages(input.schema, input.rows,
                                       input.sourceUrl, 0, tick)]>>]
  /\ UNCHANGED <<input, instances, cvars>>

\* producer.send settles, and sendBatch ends.
SendSettles(ok) ==
  /\ output.fn = "sendBatch"
  /\ output.pc = "send"
  /\ output' = IF ok THEN [output EXCEPT !.pc = "done", !.returned = TRUE]
               ELSE Thrown(output, SendError)
  /\ UNCHANGED <<input, instances, cvars>>

NextSend ==
  \/ SendBatch
  \/ \E ok \in BOOLEAN : SendSettles(ok)

SpecSend == InitSend /\ [][NextSend]_vars

\* JSON.parse(message.value.toString()): the object with the members the
\* text holds.
JSONparse(text) ==
  [schema |-> text.json.schema, row |-> text.json.row,
   timestamp |-> text.json.timestamp, sourceUrl |-> text.json.sourceUrl]

\* kafkajs hands the consumer the next message of an acknowledged send:
\* handleMessage parses it and takes its schema and its row.
Receive ==
  /\ output.fn = "sendBatch"
  /\ output.returned
  /\ Len(output.received) < Len(output.sends[1].messages)
  /\ LET message == output.sends[1].messages[Len(output.received) + 1]
         kafkaMessage == JSONparse(message.value)
     IN  output' = [output EXCEPT
                      !.received = Append(@, [schema |-> kafkaMessage.schema,
                                              row |-> kafkaMessage.row])]
  /\ UNCHANGED <<input, instances, cvars>>

NextTransport == NextSend \/ Receive

SpecTransport == InitSend /\ [][NextTransport]_vars

----------------------------------------------------------------------------
\* ParserService.parseHtml and ProducerController.execute

\* Table elements of a document.
NumTables == 3

\* A table of a header row only.
HeaderOnlyTable == <<<<<<"N", "a", "m", "e">>, <<"A", "g", "e">>>>>>

\* The table elements drawn: the rows of the element, and whether parseTable
\* throws on it.
TableElements ==
  {[trs |-> trs, malformed |-> FALSE] :
     trs \in {NameAgeTable, AgeTable, RepeatedHeaderTable, HeaderOnlyTable}}
    \cup {[trs |-> NameAgeTable, malformed |-> TRUE]}

\* The documents drawn, each the table elements $("table") finds, in order.
Documents == UNION {[1..n -> TableElements] : n \in 0..NumTables}

\* The ParsedTable parseTable returns.
TableOf(parsed) == [schema |-> parsed.schema, rows |-> parsed.rows]

ParsedTable(trs) == TableOf(parseTable(trs))

\* What the callback of $("table").each adds to tables: the parsed table
\* when it has rows, nothing when parseTable threw.
Pushed(malformed, parsedTable) ==
  IF malformed THEN <<>>
  ELSE IF Len(parsedTable.rows) > 0 THEN <<parsedTable>>
  ELSE <<>>

\* A parseHtml whose loop ends at the first table that fails.
RECURSIVE parseHtmlUntilFailure(_)
parseHtmlUntilFailure(html) ==
  IF html = <<>> \/ Head(html).malformed THEN <<>>
  ELSE Pushed(FALSE, ParsedTable(Head(html).trs))
         \o parseHtmlUntilFailure(Tail(html))

\* ParserService.parseHtml
RECURSIVE parseHtml(_)
parseHtml(html) ==
  IF html = <<>> THEN <<>>
  ELSE Pushed(Head(html).malformed, ParsedTable(Head(html).trs))
         \o parseHtml(Tail(html))

\* The error fetchHtml throws.
FetchError == [kind |-> "Error", message |-> "Failed to fetch URL"]

InitProduce ==
  /\ ConsumerIdle
  /\ input \in {[fn |-> "execute", html |-> html, targetUrl |-> "http://a"] :
                  html \in Documents}
  /\ output = NoCall
  /\ instances = <<>>

\* execute up to its await of fetchHtml.
Execute ==
  /\ input.fn = "execute"
  /\ output = NoCall
  /\ output' = [fn |-> "execute", pc |-> "fetch", tables |-> <<>>,
                sends |-> <<>>, returned |-> FALSE, thrown |-> FALSE,
                error |-> Null]
  /\ UNCHANGED <<input, instances, cvars>>

\* execute from the tables parseHtml returned to its end or to its await of
\* sendBatch: it returns when there is no table and sends the rows of the
\* first table otherwise.
Selected(call, tables, targetUrl) ==
  IF Len(tables) = 0
    THEN {[call EXCEPT !.tables = tables, !.pc = "done", !.returned = TRUE]}
    ELSE {[call EXCEPT
             !.tables = tables,
             !.pc = "send",
             !.sends = <<[topic |-> "topic",
                          messages |->
                            Messages(tables[1].schema, tables[1].rows,
                                     targetUrl, 0, tick)]>>] :
            tick \in 0..Len(tables[1].rows)}

\* fetchHtml settles: execute parses the document and goes on with its
\* tables; an error is logged and thrown again.
FetchSettles(ok) ==
  /\ output.fn = "execute"
  /\ output.pc = "fetch"
  /\ output' \in IF ok THEN Selected(output, parseHtml(input.html),
                                     input.targetUrl)
                 ELSE {Thrown(output, FetchError)}
  /\ UNCHANGED <<input, instances, cvars>>

\* sendBatch settles, and execute ends.
BatchSettles(ok) ==
  /\ output.fn = "execute"
  /\ output.pc = "send"
  /\ output' = IF ok THEN [output EXCEPT !.pc = "done", !.returned = TRUE]
               ELSE Thrown(output, SendError)
  /\ UNCHANGED <<input, instances, cvars>>

NextProduce ==
  \/ Execute
  \/ \E ok \in BOOLEAN : FetchSettles(ok)
  \/ \E ok \in BOOLEAN : BatchSettles(ok)

SpecProduce == InitProduce /\ [][NextProduce]_vars

----------------------------------------------------------------------------
\* DatabaseService.insertBatch

\* Rows given to one call of insertBatch.
MaxBatch == 2

\* The keys of TableRows, and the rows drawn: rows of one schema have the
\* same keys in the same order, rows of units of another schema have others.
RowKeys == {<<"a", "b">>, <<"a", "c">>, <<"a">>}

RowValues == {Null, StringValue(<<"x">>)}

TableRowsDrawn ==
  UNION {{[k \in DOMAIN keys |-> [key |-> keys[k], value |-> values[k]]] :
            values \in [DOMAIN keys -> RowValues]} : keys \in RowKeys}

\* Object.keys(row)
Keys(row) == [k \in DOMAIN row |-> row[k].key]

\* row[col], undefined written as null
ValueOf(row, col) ==
  IF \E k \in DOMAIN row : row[k].key = col
    THEN row[CHOOSE k \in DOMAIN row : row[k].key = col].value
    ELSE Null

\* The INSERT statement insertBatch builds: the columns are the keys of
\* rows[0], and every row gives one value for each of them.  (No value of a
\* row parsed from JSON is undefined, so the filter on rows[0] keeps every
\* key.)
InsertStatement(rows) ==
  LET columns == Keys(rows[1])
  IN  [columns |-> columns,
       values |-> Flatten([r \in DOMAIN rows |->
                             [c \in DOMAIN columns |->
                                ValueOf(rows[r], columns[c])]]),
       valuePlaceholders |-> [r \in DOMAIN rows |-> Len(columns)]]

\* The errors of insertBatch and of connection.execute.
NoConnection ==
  [kind |-> "Error", message |-> "Database connection not established"]

ExecuteError == [kind |-> "Error", message |-> "ER"]

InitInsert ==
  /\ ConsumerIdle
  /\ input \in {[fn |-> "insertBatch", isInitialized |-> b,
                 connection |-> c, rows |-> rows] :
                  b \in BOOLEAN, c \in BOOLEAN,
                  rows \in UNION {[1..n -> TableRowsDrawn] :
                                    n \in 0..MaxBatch}}
  /\ output = NoCall
  /\ instances = <<>>

\* insertBatch up to its await of connection.execute.
InsertRows ==
  /\ input.fn = "insertBatch"
  /\ output = NoCall
  /\ LET call == [fn |-> "insertBatch", pc |-> "start", statements |-> <<>>,
                  returned |-> FALSE, thrown |-> FALSE, error |-> Null]
     IN  output' =
           IF ~input.isInitialized THEN Thrown(call, NotInitialized)
           ELSE IF ~input.connection THEN Thrown(call, NoConnection)
           ELSE IF Len(input.rows) = 0
             THEN [call EXCEPT !.pc = "done", !.returned = TRUE]
           ELSE [call EXCEPT
                   !.pc = "execute",
                   !.statements = <<InsertStatement(input.rows)>>]
  /\ UNCHANGED <<input, instances, cvars>>

\* connection.execute settles, and insertBatch ends.
ExecuteSettles(ok) ==
  /\ output.fn = "insertBatch"
  /\ output.pc = "execute"
  /\ output' = IF ok THEN [output EXCEPT !.pc = "done", !.returned = TRUE]
               ELSE Thrown(output, ExecuteError)
  /\ UNCHANGED <<input, instances, cvars>>

NextInsert ==
  \/ InsertRows
  \/ \E ok \in BOOLEAN : ExecuteSettles(ok)

SpecInsert == InitInsert /\ [][NextInsert]_vars

----------------------------------------------------------------------------
\* Calls on a component that may not be ready: ParserService.parseHtml,
\* DatabaseService.createTable and KafkaConsumerService.startConsuming as
\* calls of their own, next to fetchHtml, sendBatch and insertBatch above.

InitParseHtml ==
  /\ ConsumerIdle
  /\ input \in {[fn |-> "parseHtml", isInitialized |-> b, html |-> html] :
                  b \in BOOLEAN, html \in Documents}
  /\ output = NoCall
  /\ instances = <<>>

\* parseHtml: it awaits nothing.
ParseHtml ==
  /\ input.fn = "parseHtml"
  /\ output = NoCall
  /\ LET call == [fn |-> "parseHtml", pc |-> "start", returned |-> FALSE,
                  thrown |-> FALSE, data |-> <<>>, error |-> Null]
     IN  output' =
           IF ~input.isInitialized THEN Thrown(call, NotInitialized)
           ELSE Returned(call, parseHtml(input.html))
  /\ UNCHANGED <<input, instances, cvars>>

\* The length of a VARCHAR column without a maxLength.
DefaultLength == 255

\* DatabaseService.mapTypeToSQL on the type and the maxLength of a column.
mapTypeToSQL(col) ==
  CASE col.type = "INT" -> <<"INT">>
    [] col.type = "BIGINT" -> <<"BIGINT">>
    [] col.type = "FLOAT" -> <<"FLOAT">>
    [] col.type = "DATE" -> <<"DATE">>
    [] col.type = "TIMESTAMP" -> <<"DATETIME">>
    [] col.type = "BOOLEAN" -> <<"BOOLEAN">>
    [] col.type = "TEXT" -> <<"TEXT">>
    [] OTHER ->
         <<"VARCHAR", IF "maxLength" \in DOMAIN col /\ col.maxLength # 0
                        THEN col.maxLength ELSE DefaultLength>>

\* The two statements of createTable.
DropTableSQL == [sql |-> "DROP TABLE IF EXISTS"]

CreateTableSQL(schema) ==
  [sql |-> "CREATE TABLE IF NOT EXISTS",
   columns |-> [c \in DOMAIN schema.columns |->
                  [name |-> schema.columns[c].name,
                   type |-> mapTypeToSQL(schema.columns[c])]]]

InitCreate ==
  /\ ConsumerIdle
  /\ input \in {[fn |-> "createTable", isInitialized |-> b,
                 connection |-> c, schema |-> parsed.schema] :
                  b \in BOOLEAN, c \in BOOLEAN,
                  parsed \in {parseTable(trs) : trs \in ScenarioTables}}
  /\ output = NoCall
  /\ instances = <<>>

\* createTable up to its await of the DROP TABLE statement.
CreateTableCall ==
  /\ input.fn = "createTable"
  /\ output = NoCall
  /\ LET call == [fn |-> "createTable", pc |-> "start", statements |-> <<>>,
                  currentSchema |-> Null, returned |-> FALSE,
                  thrown |-> FALSE, error |-> Null]
     IN  output' =
           IF ~input.isInitialized THEN Thrown(call, NotInitialized)
           ELSE IF ~input.connection THEN Thrown(call, NoConnection)
           ELSE [call EXCEPT !.pc = "drop", !.statements = <<DropTableSQL>>]
  /\ UNCHANGED <<input, instances, cvars>>

\* connection.execute settles, and createTable runs up to its next await or
\* to its end: this.currentSchema = schema.
StatementSettles(ok) ==
  /\ output.fn = "createTable"
  /\ output.pc \in {"drop", "create"}
  /\ output' =
       IF ~ok THEN Thrown(output, ExecuteError)
       ELSE IF output.pc = "drop"
         THEN [output EXCEPT
                 !.pc = "create",
                 !.statements = Append(@, CreateTableSQL(input.schema))]
       ELSE [output EXCEPT !.pc = "done", !.returned = TRUE,
                           !.currentSchema = input.schema]
  /\ UNCHANGED <<input, instances, cvars>>

\* new Error("Message handler not set. Call setMessageHandler() first.")
NoHandler == [kind |-> "Error", message |-> "Message handler not set"]

\* The error consumer.subscribe or consumer.run rejects with.
ConsumerError == [kind |-> "KafkaJSError", message |-> "consumer failed"]

InitStart ==
  /\ ConsumerIdle
  /\ input \in {[fn |-> "startConsuming", isConnected |-> b,
                 messageHandler |-> h, fromBeginning |-> TRUE] :
                  b \in BOOLEAN, h \in BOOLEAN}
  /\ output = NoCall
  /\ instances = <<>>

\* A variant of StartConsuming without the test of the message handler.
StartConsumingUnchecked ==
  /\ input.fn = "startConsuming"
  /\ output = NoCall
  /\ LET call == [fn |-> "startConsuming", pc |-> "start",
                  subscriptions |-> <<>>, runs |-> <<>>, timers |-> <<>>,
                  returned |-> FALSE, thrown |-> FALSE, error |-> Null]
     IN  output' =
           IF ~input.isConnected THEN Thrown(call, NotConnected)
           ELSE [call EXCEPT
                   !.pc = "subscribe",
                   !.subscriptions =
                     <<[topic |-> "topic",
                        fromBeginning |-> input.fromBeginning]>>]
  /\ UNCHANGED <<input, instances, cvars>>

\* startConsuming up to its await of consumer.subscribe.
StartConsuming ==
  /\ input.fn = "startConsuming"
  /\ output = NoCall
  /\ LET call == [fn |-> "startConsuming", pc |-> "start",
                  subscriptions |-> <<>>, runs |-> <<>>, timers |-> <<>>,
                  returned |-> FALSE, thrown |-> FALSE, error |-> Null]
     IN  output' =
           IF ~input.isConnected THEN Thrown(call, NotConnected)
           ELSE IF ~input.messageHandler THEN Thrown(call, NoHandler)
           ELSE [call EXCEPT
                   !.pc = "subscribe",
                   !.subscriptions =
                     <<[topic |-> "topic",
                        fromBeginning |-> input.fromBeginning]>>]
  /\ UNCHANGED <<input, instances, cvars>>

\* consumer.subscribe or consumer.run settles, and startConsuming runs up to
\* its next await or, through setInterval, to its end.
ConsumerSettles(ok) ==
  /\ output.fn = "startConsuming"
  /\ output.pc \in {"subscribe", "run"}
  /\ output' =
       IF ~ok THEN Thrown(output, ConsumerError)
       ELSE IF output.pc = "subscribe"
         THEN [output EXCEPT
                 !.pc = "run",
                 !.runs = <<[autoCommit |-> TRUE,
                             autoCommitInterval |-> 5000]>>]
       ELSE [output EXCEPT !.pc = "done", !.returned = TRUE,
                           !.timers = <<5000>>]
  /\ UNCHANGED <<input, instances, cvars>>

\* One call of one of the six operations on a component that is ready or not.
InitCall ==
  \/ InitFetch
  \/ InitSend
  \/ InitInsert
  \/ InitParseHtml
  \/ InitCreate
  \/ InitStart

NextCall ==
  \/ NextFetch
  \/ NextSend
  \/ NextInsert
  \/ ParseHtml
  \/ CreateTableCall
  \/ \E ok \in BOOLEAN : StatementSettles(ok)
  \/ StartConsuming
  \/ \E ok \in BOOLEAN : ConsumerSettles(ok)

SpecCall == InitCall /\ [][NextCall]_vars

----------------------------------------------------------------------------
\* The lifecycle of BaseKafka and BaseService: a sequence of connect and
\* disconnect (initialize and destroy) calls, each made after the one before
\* it has settled.  ready is isConnected or isInitialized.

MaxCalls == 4

Bases == {"BaseKafka", "BaseService"}

\* The two lifecycle methods of a base class, and the hook each awaits.
Methods(base) ==
  IF base = "BaseKafka" THEN {"connect", "disconnect"}
  ELSE {"initialize", "destroy"}

\* The call has returned, or thrown.
Settle(c, result) ==
  [c EXCEPT !.pc = "idle", !.hook = "", !.k = @ + 1,
            !.results = Append(@, result)]

Await(c, hook) == [c EXCEPT !.pc = "hook", !.hook = hook]

\* A variant of disconnect without the test of isConnected.
disconnectAlways(c) == Await(c, "onDisconnect")

\* BaseKafka.connect and disconnect up to the await of the hook.
connect(c) == IF c.ready THEN Settle(c, "returned") ELSE Await(c, "onConnect")

disconnect(c) ==
  IF ~c.ready THEN Settle(c, "returned") ELSE Await(c, "onDisconnect")

\* BaseService.initialize and destroy up to the await of the hook.
initialize(c) ==
  IF c.ready THEN Settle(c, "returned") ELSE Await(c, "onInitialize")

destroy(c) ==
  IF ~c.ready THEN Settle(c, "returned") ELSE Await(c, "onDestroy")

\* The method after its hook has returned: the assignment to the flag.
AfterHook(c) ==
  Settle([c EXCEPT !.ready = c.hook \in {"onConnect", "onInitialize"}],
         "returned")

InitLifecycle ==
  /\ ConsumerIdle
  /\ \E base \in Bases :
       input \in {[fn |-> "lifecycle", base |-> base, calls |-> calls] :
                    calls \in UNION {[1..n -> Methods(base)] :
                                       n \in 0..MaxCalls}}
  /\ output = [fn |-> "lifecycle", pc |-> "idle", hook |-> "", k |-> 0,
               ready |-> FALSE, hooks |-> <<>>, results |-> <<>>]
  /\ instances = <<>>

\* The next call of the sequence is made.
Invoke ==
  /\ input.fn = "lifecycle"
  /\ output.pc = "idle"
  /\ output.k < Len(input.calls)
  /\ LET method == input.calls[output.k + 1]
     IN  output' = CASE method = "connect" -> connect(output)
                     [] method = "disconnect" -> disconnect(output)
                     [] method = "initialize" -> initialize(output)
                     [] OTHER -> destroy(output)
  /\ UNCHANGED <<input, instances, cvars>>

\* The hook settles: the method sets the flag and returns, or the hook's
\* error leaves the method.
HookSettles(ok) ==
  /\ input.fn = "lifecycle"
  /\ output.pc = "hook"
  /\ LET c == [output EXCEPT
                 !.hooks = Append(@, [hook |-> output.hook, ok |-> ok])]
     IN  output' = IF ok THEN AfterHook(c) ELSE Settle(c, "thrown")
  /\ UNCHANGED <<input, instances, cvars>>

NextLifecycle ==
  \/ Invoke
  \/ \E ok \in BOOLEAN : HookSettles(ok)

SpecLifecycle == InitLifecycle /\ [][NextLifecycle]_vars

----------------------------------------------------------------------------
\* Claims

\* Flows inside flushBuffer, and batch inserts MySQL has not answered yet.
KFlushing == {f \in KFlows : InFlush(f, Cur)}

InsertsInFlight == {k \in DOMAIN dbq : dbq[k].op = "insert"}

\* Every row handed to insertBatch so far, call after call.
SunkRows == Flatten(sunk)

\* C1: at most one flush executes at a time for the consumer instance: two
\* flushBuffer runs never overlap, and two batch inserts of the controller
\* never overlap.
C1_SingleFlight ==
  Cardinality(KFlushing) <= 1 /\ Cardinality(InsertsInFlight) <= 1

\* C2: when the size trigger and a timer coincide, no row is handed to
\* insertBatch twice.
C2_NoRowSunkTwice == \A r \in Range(accepted) : Count(r, SunkRows) <= 1

\* C3: a row accepted by handleMessage is never discarded: it is in the
\* consumer's buffer, in the array a running flushBuffer still iterates, in
\* the controller's buffer, or it has been handed to insertBatch.
C3_NoRowDiscarded ==
  \A r \in Range(accepted) :
    \/ InSeq(r, messageBuffer)
    \/ \E f \in KFlushing : fl[f].det /\ InSeq(r, fl[f].arr)
    \/ InSeq(r, ctrlBuffer)
    \/ InSeq(r, SunkRows)

\* C4: when destroy has released the Kafka consumer and the database
\* connection, every row that was buffered is in storage.
C4_DrainWritesAll ==
  phase = "stopped" => \A r \in Range(accepted) : InSeq(r, table.rows)

\* C5: the offset of a unit is committed to the broker only after its row
\* was written to storage.
C5_CommitAfterWrite ==
  \A n \in 1..committed : InSeq(RowOf(n), table.rows)

\* All units consumed, nothing buffered, no flow running.
Quiescent ==
  /\ next > NumMsgs
  /\ \A f \in Flows : fl[f].pc = "idle"
  /\ messageBuffer = <<>>
  /\ ctrlBuffer = <<>>
  /\ dbq = <<>>

\* C6: with the timers firing, no storage failure and no shutdown, every
\* accepted row ends up in storage: once nothing is buffered or in flight
\* any more, no accepted row is missing from the table.
C6_AllWrittenWhenQuiet ==
  Quiescent => \A r \in Range(accepted) : InSeq(r, table.rows)

\* MySQL has just failed a batch insert.
WriteFailed == last.kind = "db" /\ last.op = "insert" /\ ~last.ok

\* The failure reached the caller of the flow: eachMessage rejected and the
\* offset stays unresolved, or the timer callback or signal handler rejected.
Propagated ==
  /\ fl[last.flow].pc = "idle"
  /\ last.flow # "msg" => phase = "crashed"

C8_NoUnitWhileDraining ==
  [][phase = "draining" => accepted' = accepted]_vars

\* C9: createTable is called at most once in a session, and before any row
\* is handed to insertBatch.
C9_ProvisionedOnce ==
  createCalls <= 1 /\ (sunk # <<>> => tableInitialized)

\* C10: no row of a unit whose schema differs from the schema the table was
\* provisioned for is written into that table.
C10_NoForeignRow ==
  \A k \in DOMAIN table.rows : table.rows[k].cols = table.cols

\* C11: insertBatch is never called with zero rows, whichever trigger fired
\* (size, timer or drain): every recorded call and every batch insert issued
\* to MySQL carries at least one row.
C11_NoEmptyWrite ==
  /\ \A b \in DOMAIN sunk : sunk[b] # <<>>
  /\ \A k \in DOMAIN dbq : dbq[k].op = "insert" => dbq[k].rows # <<>>

\* C11 witness: the drain ran over empty buffers after earlier writes.
C11_Witness ==
  /\ last.kind = "signal"
  /\ messageBuffer = <<>>
  /\ ctrlBuffer = <<>>
  /\ sunk # <<>>

\* The latest step belongs to the periodic flush of startConsuming.
ByKTimer == last.kind = "ktimer" \/ (last.kind = "db" /\ last.flow = "ktimer")

SizeFlushReturns ==
  /\ next' = next + 1
  /\ \/ last'.kind = "deliver" /\ Len(messageBuffer) + 1 >= batchSize
     \/ last'.kind = "db" /\ last'.flow = "msg"

\* The rows that flushBuffer run iterated.
SizeFlushRows ==
  IF last'.kind = "deliver"
    THEN Append(messageBuffer, RowOf(next))
    ELSE ArrOf("msg", Cur)

\* C13: when a push makes the buffer reach batchSize, the buffered rows are
\* handed to insertBatch while that unit is being handled: when handleMessage
\* returns from the flush, before the next unit, every row of the flushed
\* buffer has been the argument of an insertBatch call.
C13_SizeFlushWrites ==
  [][SizeFlushReturns =>
       \A r \in Range(SizeFlushRows) : InSeq(r, Flatten(sunk'))]_vars

\* C14: order is preserved: in the sequence of rows handed to insertBatch, the
\* row of a unit never comes after the row of a unit delivered later.
C14_OrderPreserved ==
  \A p, q \in DOMAIN SunkRows : p < q => SunkRows[p].id <= SunkRows[q].id

\* The order of the types as the claims give it, lowest first.
TypeOrder ==
  <<"BOOLEAN", "DATE", "TIMESTAMP", "INT", "BIGINT", "FLOAT", "VARCHAR",
    "TEXT">>

Rank(t) == CHOOSE k \in DOMAIN TypeOrder : TypeOrder[k] = t

\* C18: mergeDataTypes returns the higher-ranked of its two arguments and is
\* commutative, associative and idempotent over the eight types.
C18_MergeIsJoin ==
  output.fn = "mergeDataTypes" =>
    /\ output.ab \in {input.a, input.b}
    /\ Rank(output.ab) >= Rank(input.a)
    /\ Rank(output.ab) >= Rank(input.b)
    /\ output.ab = output.ba
    /\ output.left = output.right
    /\ output.aa = input.a

\* C18 witness: three different types were merged, the highest in the middle.
C18_Witness ==
  /\ output.fn = "mergeDataTypes"
  /\ input.a = "INT" /\ input.b = "FLOAT" /\ input.c = "BOOLEAN"
  /\ output.left = "FLOAT"

\* The cleaned values inferSchema scans in column c that are not empty cells.
ScannedValues(c) ==
  {cleanValue(output.rawRows[r][c]) :
     r \in {q \in DOMAIN output.rawRows :
              /\ c \in DOMAIN output.rawRows[q]
              /\ ~IsEmptyCell(cleanValue(output.rawRows[q][c]))}}

\* C16: the type inferSchema gives a column is the least upper bound, in the
\* order of the types, of the types of its values that are not empty cells;
\* the column of 30, 40 and 2147483648 is BIGINT.
C16_TypeIsLeastUpperBound ==
  output.fn = "parseTable" =>
    /\ \A c \in DOMAIN output.schema.columns :
         LET types == {inferDataType(v) : v \in ScannedValues(c)}
         IN  types # {} =>
               /\ output.schema.columns[c].type \in types
               /\ \A t \in types :
                    Rank(t) <= Rank(output.schema.columns[c].type)
    /\ input.trs = AgeTable => output.schema.columns[1].type = "BIGINT"

\* C17: for headers Name, Age and the rows (John, 30) and ("", "") the schema
\* is name VARCHAR(255), age INT, and the only row is name John, age 30.
C17_NameAgeScenario ==
  (output.fn = "parseTable" /\ input.trs = NameAgeTable) =>
    /\ output.schema.columns =
         <<[name |-> <<"n", "a", "m", "e">>, type |-> "VARCHAR",
            maxLength |-> 255],
           [name |-> <<"a", "g", "e">>, type |-> "INT"]>>
    /\ output.rows =
         <<<<[key |-> <<"n", "a", "m", "e">>,
               value |-> StringValue(<<"J", "o", "h", "n">>)],
             [key |-> <<"a", "g", "e">>,
               value |-> NumberValue(FALSE, <<"3", "0">>, <<>>)]>>>>

\* C19: inferSchema gives the same schema for every order of the data rows.
C19_OrderIndependent ==
  output.fn = "parseTable" =>
    \A p \in Permutations(DOMAIN output.rawRows) :
      inferSchema(output.headers,
                  [k \in DOMAIN output.rawRows |-> output.rawRows[p[k]]])
        = output.schema

\* C19 witness: different rows were scanned, and the one that decides the
\* type of the column is not the last.
C19_Witness ==
  /\ output.fn = "parseTable"
  /\ Len(output.rawRows) > 1
  /\ \A i, j \in DOMAIN output.rawRows :
       i # j => output.rawRows[i] # output.rawRows[j]
  /\ output.rawRows[1] = <<LongText>>
  /\ output.schema.columns[1].type = "TEXT"

\* C20: the names of the columns of a schema are pairwise distinct, and every
\* row has exactly one entry for every column of the schema.
C20_DistinctNames ==
  output.fn = "parseTable" =>
    LET columns == output.schema.columns
    IN  /\ \A i, j \in DOMAIN columns :
             i # j => columns[i].name # columns[j].name
        /\ \A r \in DOMAIN output.rows :
             /\ Len(output.rows[r]) = Len(columns)
             /\ \A c \in DOMAIN columns :
                  Cardinality({k \in DOMAIN output.rows[r] :
                     output.rows[r][k].key = columns[c].name}) = 1

\* The cleaned texts that stand for no value.
NullTexts == {<<>>, <<"-">>, <<"N", "/", "A">>}

\* rows with <<>> in place of every cell whose cleaned text is a null text.
Blanked(rows) ==
  [r \in DOMAIN rows |->
     [c \in DOMAIN rows[r] |->
        IF cleanValue(rows[r][c]) \in NullTexts THEN <<>> ELSE rows[r][c]]]

\* C21: a cell whose cleaned text is "", "-" or "N/A" converts to null under
\* every type, is null in its row under the type of its column, and the
\* schema is the one inferred from the rows without such cells.
C21_NullCells ==
  output.fn = "parseTable" =>
    /\ \A r \in DOMAIN output.rawRows : \A c \in DOMAIN output.rawRows[r] :
         cleanValue(output.rawRows[r][c]) \in NullTexts =>
           /\ \A t \in DataTypes :
                convertValue(output.rawRows[r][c], t) = Null
           /\ (c \in DOMAIN output.schema.columns
               /\ \A d \in DOMAIN output.schema.columns :
                    d # c => output.schema.columns[d].name
                               # output.schema.columns[c].name)
              => \E k \in DOMAIN output.rows[r] :
                   /\ output.rows[r][k].key = output.schema.columns[c].name
                   /\ output.rows[r][k].value = Null
    /\ inferSchema(output.headers, Blanked(output.rawRows)) = output.schema

\* C21 witness: a column holds N/A and a value, and the row of N/A has null.
C21_Witness ==
  /\ output.fn = "parseTable"
  /\ input.trs = <<<<<<"A", "g", "e">>>>, <<<<"N", "/", "A">>>>,
                   <<<<"3", "0">>>>>>
  /\ output.schema.columns[1].type = "VARCHAR"
  /\ output.rows[1] = <<[key |-> <<"a", "g", "e">>, value |-> Null]>>
  /\ output.rows[2] = <<[key |-> <<"a", "g", "e">>,
                         value |-> StringValue(<<"3", "0">>)]>>

\* The value of a sequence of digits.
RECURSIVE Value(_)
Value(d) ==
  IF d = <<>> THEN 0
  ELSE 10 * Value(SubSeq(d, 1, Len(d) - 1)) + DigitValue(d[Len(d)])

\* The integer with the given sign and digits (no leading zeros) lies in
\* [-2147483648, 2147483647]; the last digit is compared apart so that no
\* number above 2^31 - 1 is computed.
InInt32(negative, d) ==
  \/ Len(d) < 10
  \/ /\ Len(d) = 10
     /\ LET high == Value(SubSeq(d, 1, 9))
            low == DigitValue(d[10])
        IN  \/ high < 214748364
            \/ high = 214748364 /\ low <= (IF negative THEN 8 ELSE 7)

\* C22: a value that is an optional '-' and digits once its commas are
\* removed is INT exactly when the integer lies in [-2147483648, 2147483647]
\* and BIGINT otherwise; 2147483647 and -2147483648 are INT, 2147483648 and
\* -2147483649 are BIGINT.
C22_IntRange ==
  output.fn = "inferDataType" =>
    LET plain == SelectSeq(input.value, LAMBDA c : c # ",")
        negative == plain # <<>> /\ plain[1] = "-"
        digits == IF negative THEN Tail(plain) ELSE plain
        first == CHOOSE k \in 1..Len(digits) :
                   /\ k = Len(digits) \/ digits[k] # "0"
                   /\ \A j \in 1..(k - 1) : digits[j] = "0"
    IN  /\ (digits # <<>> /\ \A i \in DOMAIN digits : digits[i] \in Digits)
           => output.type =
                IF InInt32(negative, SubSeq(digits, first, Len(digits)))
                  THEN "INT" ELSE "BIGINT"
        /\ input.value = Int32Max => output.type = "INT"
        /\ input.value = Int32MinMagnitude => output.type = "BIGINT"
        /\ input.value = <<"-">> \o Int32MinMagnitude => output.type = "INT"
        /\ input.value
             = <<"-", "2", "1", "4", "7", "4", "8", "3", "6", "4", "9">>
             => output.type = "BIGINT"

\* C22 witness: the largest integer of 32 bits was classified.
C22_Witness ==
  /\ output.fn = "inferDataType"
  /\ input.value = Int32Max
  /\ output.type = "INT"

\* The lengths of the cleaned texts of the cells of column c.
CleanedLengths(c) ==
  {Len(cleanValue(output.rawRows[r][c])) :
     r \in {q \in DOMAIN output.rawRows : c \in DOMAIN output.rawRows[q]}}

\* C23: a column without a value that is not null is VARCHAR with maxLength
\* 255; the maxLength of a VARCHAR column is the larger of 255 and the
\* longest cleaned length in the column; no other column has a maxLength.
C23_MaxLength ==
  output.fn = "parseTable" =>
    \A c \in DOMAIN output.schema.columns :
      LET column == output.schema.columns[c]
          longest == CHOOSE n \in CleanedLengths(c) \cup {0} :
                       \A k \in CleanedLengths(c) : k <= n
      IN  /\ ScannedValues(c) = {} =>
               /\ column.type = "VARCHAR"
               /\ column.maxLength = 255
          /\ column.type = "VARCHAR" =>
               /\ "maxLength" \in DOMAIN column
               /\ column.maxLength = IF longest > 255 THEN longest ELSE 255
          /\ column.type # "VARCHAR" => "maxLength" \notin DOMAIN column

\* C23 witness: a VARCHAR column holds a value of 256 characters and a null
\* cell, and its maxLength is 256.
C23_Witness ==
  /\ output.fn = "parseTable"
  /\ input.trs = <<<<<<"A", "g", "e">>>>, <<LongNumber>>,
     <<<<"N", "/", "A">>>>>>
  /\ output.schema.columns[1].type = "VARCHAR"
  /\ output.schema.columns[1].maxLength = 256

\* An error fetchHtml may try again after: no response (network error,
\* timeout), a 5xx status or 429.
Retryable(e) ==
  ~e.ok /\ (~e.response \/ e.status \in 500..599 \/ e.status = 429)

\* A 4xx response other than 429.
ClientError(e) ==
  ~e.ok /\ e.response /\ e.status \in 400..499 /\ e.status # 429

\* C24: every wait of fetchHtml follows a network error, a timeout, a 5xx or
\* a 429; after a 4xx response other than 429, at whatever attempt, fetchHtml
\* has thrown without a wait or a request after it.
C24_RetryOnlyRetryable ==
  output.fn = "fetchHtml" =>
    /\ \A k \in DOMAIN output.waits : Retryable(output.requests[k])
    /\ \A k \in DOMAIN output.requests :
         /\ k > 1 => Retryable(output.requests[k - 1])
         /\ ClientError(output.requests[k]) =>
              /\ k = Len(output.requests)
              /\ Len(output.waits) = k - 1
              /\ output.pc = "done"
              /\ output.thrown
              /\ ~output.returned

\* C24 witness: a 404 answered the second of three attempts, after a 503.
C24_Witness ==
  /\ output.fn = "fetchHtml"
  /\ input.maxRetries = 3
  /\ output.requests = <<ResponseError(503), ResponseError(404)>>
  /\ output.thrown
  /\ output.error = ResponseError(404)

\* C25: fetchHtml makes at most maxRetries requests; when it has made them
\* all and the last failed it has thrown an error with the message of the
\* last failure; it returns only the document of a request; and every call
\* ends, having returned or thrown and not both.
C25_BoundedAttempts ==
  /\ [](output.fn = "fetchHtml" =>
          /\ Len(output.requests) <= input.maxRetries
          /\ Len(output.waits) <= Len(output.requests)
          /\ (/\ Len(output.requests) = input.maxRetries
              /\ input.maxRetries > 0
              /\ ~output.requests[Len(output.requests)].ok)
             => /\ output.thrown
                /\ output.error.kind = "Error"
                /\ output.error.attempts = input.maxRetries
                /\ output.error.message
                     = output.requests[Len(output.requests)].message
          /\ output.returned =>
               /\ output.requests # <<>>
               /\ output.requests[Len(output.requests)].ok
          /\ (output.pc = "done") = (output.returned \/ output.thrown)
          /\ ~(output.returned /\ output.thrown))
  /\ <>(output.fn = "fetchHtml" /\ output.pc = "done")

\* C25 witness: three of three attempts failed with errors that are tried
\* again, and fetchHtml threw the terminal error with the last message.
C25_Witness ==
  /\ output.fn = "fetchHtml"
  /\ input.maxRetries = 3
  /\ output.requests = <<ResponseError(500), NetworkError, TimeoutError>>
  /\ output.thrown
  /\ output.error = [kind |-> "Error", attempts |-> 3,
                     message |-> "timeout exceeded"]

C27_OneUnitPerRow ==
  (output.fn = "sendBatch" /\ input.isConnected) =>
    /\ Len(output.sends) = 1
    /\ LET messages == output.sends[1].messages
       IN  /\ Len(messages) = Len(input.rows)
           /\ \A i \in DOMAIN messages :
                LET unit == messages[i].value.json
                IN  /\ messages[i].key.index = i - 1
                    /\ unit.schema = input.schema
                    /\ unit.sourceUrl = input.sourceUrl
                    /\ Len(unit.row) = Len(input.rows[i])
                    /\ \A k \in DOMAIN unit.row :
                         /\ unit.row[k].key = input.rows[i][k].key
                         /\ \/ unit.row[k].value = input.rows[i][k].value
                            \/ /\ input.rows[i][k].value = NaN
                               /\ unit.row[k].value = Null

\* C27 witness: a batch of two different rows was sent and acknowledged.
C27_Witness ==
  /\ output.fn = "sendBatch"
  /\ output.returned
  /\ Len(input.rows) = 2
  /\ input.rows[1] # input.rows[2]
  /\ Len(output.sends[1].messages) = 2
  /\ Len(input.schema.columns) = 2

\* A row that repeats the headers: every cell, cleaned, equals the header
\* of its column but for case.
RepeatsHeaders(cells, headers) ==
  \A idx \in DOMAIN cells :
    /\ idx \in DOMAIN headers
    /\ toLowerCase(cleanValue(cells[idx])) = toLowerCase(headers[idx])

\* A row without a cell that is not empty once cleaned.
EmptyCleaned(cells) == \A idx \in DOMAIN cells : cleanValue(cells[idx]) = <<>>

\* C29: the rows parseTable keeps are, in the order of the document, the
\* rows that neither repeat the headers nor are empty once cleaned.
C29_RowsKept ==
  output.fn = "parseTable" =>
    output.rawRows =
      SelectSeq(input.trs, LAMBDA cells :
                  /\ ~RepeatsHeaders(cells, output.headers)
                  /\ ~EmptyCleaned(cells))

\* The table elements of the document on which parseTable does not fail and
\* which have a data row.
GoodTables ==
  SelectSeq(input.html,
            LAMBDA e : ~e.malformed /\ Len(parseTable(e.trs).rawRows) > 0)

\* C28: once the document is fetched the tables parseHtml returned are those
\* of the elements that did not fail and have a data row, in the order of
\* the document; when there is none, and so for a document without a table
\* element, execute has returned without a send and without an error.
C28_SkipFailedTable ==
  (output.fn = "execute" /\ output.pc # "fetch" /\ output.error # FetchError)
    => LET good == GoodTables
       IN  /\ Len(output.tables) = Len(good)
           /\ \A i \in DOMAIN output.tables :
                LET parsed == parseTable(good[i].trs)
                IN  /\ output.tables[i].schema = parsed.schema
                    /\ output.tables[i].rows = parsed.rows
           /\ good = <<>> =>
                /\ output.tables = <<>>
                /\ output.sends = <<>>
                /\ output.pc = "done"
                /\ output.returned
                /\ ~output.thrown

\* C28 witness: the second of three tables failed, the first and the third
\* were returned in this order, and the rows of the first were sent.
C28_Witness ==
  /\ output.fn = "execute"
  /\ input.html = <<[trs |-> AgeTable, malformed |-> FALSE],
                    [trs |-> NameAgeTable, malformed |-> TRUE],
                    [trs |-> NameAgeTable, malformed |-> FALSE]>>
  /\ output.tables = <<ParsedTable(AgeTable), ParsedTable(NameAgeTable)>>
  /\ output.returned
  /\ Len(output.sends) = 1

\* C30: an insertBatch with rows issues one statement; its columns are the
\* keys present in any row of the batch, and every row gives one value for
\* every column, its own value where it has the key.
C30_ColumnsAcrossRows ==
  (/\ output.fn = "insertBatch"
   /\ input.isInitialized
   /\ input.connection
   /\ input.rows # <<>>) =>
    /\ Len(output.statements) = 1
    /\ LET statement == output.statements[1]
           columns == statement.columns
       IN  /\ Range(columns)
                = UNION {Range(Keys(input.rows[r])) : r \in DOMAIN input.rows}
           /\ Len(statement.valuePlaceholders) = Len(input.rows)
           /\ Len(statement.values) = Len(input.rows) * Len(columns)
           /\ \A r \in DOMAIN input.rows : \A k \in DOMAIN input.rows[r] :
                \E c \in DOMAIN columns :
                  /\ columns[c] = input.rows[r][k].key
                  /\ statement.values[(r - 1) * Len(columns) + c]
                       = input.rows[r][k].value

\* Reading a member of an object: undefined when the object has none.
Member(object, name) ==
  IF name \in DOMAIN object THEN object[name] ELSE [t |-> "undefined"]

C32_SchemaWrittenOnce ==
  [][currentSchema # NoSchema => currentSchema' = currentSchema]_vars

\* C32 witness: a unit with another schema than the cached one was handled.
C32_Witness ==
  /\ currentSchema # NoSchema
  /\ \E n \in 1..(next - 1) : topic[n] # currentSchema
  /\ last.kind = "ktimer"

\* C33: a row written to the storage table stays in it: no step removes a
\* row of the table, a restarted consumer's first unit included.
C33_RowsKept ==
  [][\A i \in DOMAIN table.rows :
       i \in DOMAIN table'.rows /\ table'.rows[i] = table.rows[i]]_vars

\* C34: a row passes from the consumer's buffer to the controller's buffer
\* once: the controller's buffer never holds the row of a unit twice, also
\* after a flush that failed part-way and the redelivery of its unit.
C34_TransferredOnce ==
  \A r \in Range(accepted) : Count(r, ctrlBuffer) <= 1

\* C35: when shutdown is requested twice, the drain flush, the disconnect of
\* the Kafka consumer and the close of the database connection each happen
\* at most once: the two destroy calls are never both inside the drain
\* flush, never both inside consumer.disconnect(), and the connection never
\* has two end commands.
C35_ShutdownOnce ==
  /\ Cardinality({f \in Drains : InFlush(f, Cur)}) <= 1
  /\ Cardinality({f \in Drains : fl[f].pc = "kdisc"}) <= 1
  /\ Cardinality({k \in DOMAIN dbq : dbq[k].op = "end"}) <= 1

\* C38: each time handleMessage returns without an error, with a session
\* schema cached, the consumer's buffer holds fewer than batchSize rows.
C38_BufferBelowThreshold ==
  [][(next' = next + 1 /\ currentSchema' # NoSchema) =>
       Len(messageBuffer') < batchSize]_vars

\* C38 witness: handleMessage has returned from the size flush of a unit
\* that was handed over a second time, after a flush that failed.
C38_Witness ==
  /\ last.kind = "db" /\ last.flow = "msg" /\ last.ok
  /\ fl["msg"].pc = "idle"
  /\ Redelivered > 0
  /\ next > batchSize
  /\ messageBuffer = <<>>

\* The component the call of input was made on is not ready for it.
NotReady ==
  CASE input.fn = "sendBatch" -> ~input.isConnected
    [] input.fn = "startConsuming" ->
         ~input.isConnected \/ ~input.messageHandler
    [] input.fn \in {"fetchHtml", "parseHtml", "createTable", "insertBatch"} ->
         ~input.isInitialized
    [] OTHER -> FALSE

\* The error the operation of input throws on a component that is not ready.
NotReadyError ==
  CASE input.fn = "sendBatch" -> NotConnected
    [] input.fn = "startConsuming" ->
         IF ~input.isConnected THEN NotConnected ELSE NoHandler
    [] OTHER -> NotInitialized

\* What a call has done to the outside and to its component.
Requests == {"requests", "waits", "sends", "statements", "subscriptions",
             "runs", "timers", "data"}

\* C36: an operation called on a component that is not ready throws the
\* error of the missing precondition and does nothing else: no request, no
\* send, no subscription, no statement, no table, no schema recorded.
C36_NotReadyNoEffect ==
  (output # NoCall /\ NotReady) =>
    /\ output.pc = "done"
    /\ output.thrown /\ ~output.returned
    /\ output.error = NotReadyError
    /\ \A k \in DOMAIN output \cap Requests : output[k] \in {<<>>, Null}
    /\ "currentSchema" \in DOMAIN output => output.currentSchema = Null
    /\ ConsumerIdle

\* C36 witness: startConsuming was called on a connected consumer without a
\* message handler and has thrown.
C36_Witness ==
  /\ input.fn = "startConsuming"
  /\ input.isConnected /\ ~input.messageHandler
  /\ output # NoCall
  /\ output.thrown

\* The hooks that have succeeded, in order.
Succeeded(hooks) == SelectSeq(hooks, LAMBDA h : h.ok)

ConnectHooks == {"onConnect", "onInitialize"}

\* The hook that has just settled, in the state after the step.
Latest == output'.hooks[Len(output'.hooks)]

\* C37: the ready flag becomes true only in the step in which the connect
\* hook succeeded and false only in the step in which the disconnect hook
\* succeeded; a connect while ready and a disconnect while not ready
\* return without a hook; a hook that throws leaves the flag as it was; and
\* the hooks that succeeded alternate, starting with a connect hook.
C37_Lifecycle ==
  [][/\ output'.ready # output.ready =>
          /\ Len(output'.hooks) = Len(output.hooks) + 1
          /\ Latest.ok
          /\ output'.ready = (Latest.hook \in ConnectHooks)
     /\ (output.pc = "idle" /\ output'.pc = "hook") =>
          output.ready = (output'.hook \notin ConnectHooks)
     /\ (output.pc = "idle" /\ output'.pc = "idle") =>
          /\ output'.hooks = output.hooks
          /\ output'.results = Append(output.results, "returned")
          /\ output.ready =
               (input.calls[output'.k] \in {"connect", "initialize"})
     /\ (Len(output'.hooks) > Len(output.hooks) /\ ~Latest.ok) =>
          /\ output'.ready = output.ready
          /\ output'.results = Append(output.results, "thrown")
     /\ LET done == Succeeded(output'.hooks)
        IN  \A i \in DOMAIN done :
              (done[i].hook \in ConnectHooks) = (i % 2 = 1)]_vars

\* C37 witness: a connect hook failed, the next one succeeded, a second
\* connect returned without a hook, and a disconnect hook succeeded.
C37_Witness ==
  /\ output.fn = "lifecycle"
  /\ Len(output.hooks) = 3
  /\ ~output.hooks[1].ok /\ output.hooks[2].ok /\ output.hooks[3].ok
  /\ output.k = 4
  /\ ~output.ready

\* C39: the type of a column is an upper bound of its values: no scanned
\* value that is not an empty cell has a type that ranks above the type
\* inferSchema gives the column.
C39_TypeIsUpperBound ==
  output.fn = "parseTable" =>
    \A c \in DOMAIN output.schema.columns :
      \A v \in ScannedValues(c) :
        Rank(inferDataType(v)) <= Rank(output.schema.columns[c].type)

\* C39 witness: a TEXT column in which a value of a lower type was scanned
\* after the long text.
C39_Witness ==
  /\ output.fn = "parseTable"
  /\ Len(output.rawRows) = 2
  /\ \E c \in DOMAIN output.schema.columns :
       /\ output.schema.columns[c].type = "TEXT"
       /\ c \in DOMAIN output.rawRows[1] /\ c \in DOMAIN output.rawRows[2]
       /\ inferDataType(cleanValue(output.rawRows[1][c])) = "TEXT"
       /\ inferDataType(cleanValue(output.rawRows[2][c])) = "INT"

====
